---- MODULE Spec2Model ----
(***************************************************************************)
(* The undo manager of leo/core/leoUndo.py (class undoer): the bead list   *)
(* u.beads with its cursor u.bead, the menu labels that decide canUndo()   *)
(* and canRedo(), the beforeX/afterX entries, grouping, typing and the     *)
(* undo/redo handlers, over a small outline of vnodes.                     *)
(*                                                                         *)
(* The specifications: Spec (any commands, undo and redo), SpecTyping      *)
(* (text changes of one node, then undo, at every granularity), SpecS4     *)
(* (some history, then one group of three node changes, undo and redo),    *)
(* SpecS6 (a limited stack, pushes, then undo), SpecRaise and              *)
(* SpecReentrant (undo and redo in two steps, with handlers that raise     *)
(* and entries called in between), SpecStale (moves and outline changes    *)
(* the undoer is not told of), SpecCoalesce (typing on two nodes under two *)
(* labels), SpecWord and SpecS2 (words typed one character at a time),     *)
(* SpecS5 (clones and deletions), SpecNull (class nullUndoer), SpecDiff    *)
(* (one text change at granularity line, undone and redone), SpecLine (two *)
(* text changes at granularity line), SpecOutline (one move, promote or    *)
(* demote, undone and redone), SpecNode (one change of a node's contents), *)
(* SpecSaved (replays after a save), SpecClose (afterChangeGroup with or   *)
(* without an open group), SpecTree (a tree command and moves), SpecFrame  *)
(* (replays with or without a current position), SpecDrain (undo() or      *)
(* redo() repeated while enabled) and SpecSpecial (the typing entry called *)
(* with undo type "Can't Undo" or None).                                   *)
(*                                                                         *)
(* Texts (body strings) are sequences of one-character strings.  Python    *)
(* None is "None" for names, <<>> for selections and <<"None">> for texts. *)
(* A position p is the record [v, parent, n]: the vnode, the vnode of its  *)
(* parent at this appearance and its child index (p.v, p._parentVnode(),   *)
(* p.childIndex()).                                                        *)
(***************************************************************************)
EXTENDS Integers, Sequences, FiniteSets, TLC

VARIABLES
    body,                \* v.t._bodyString of every vnode
    head,                \* v.t._headString of every vnode
    marked,              \* the marked status bit of every vnode
    dirty,               \* the dirty status bit of every vnode
    children,            \* v.t.children of every vnode (0-based in the code)
    alias,               \* which bead-held list object v.t.children is, if any
    changed,             \* c.isChanged()
    sel,                 \* the body widget's selection range
    beads,               \* u.beads
    bead,                \* u.bead (0-based, -1 in front of the first bead)
    undoMenuLabel,       \* u.undoMenuLabel
    redoMenuLabel,       \* u.redoMenuLabel
    undoing,             \* u.undoing
    redoing,             \* u.redoing
    granularity,         \* u.granularity
    max_undo_stack_size, \* u.max_undo_stack_size
    unitTesting,         \* g.app.unitTesting
    pending,             \* the bunch a beforeX entry returned to its caller
    groups,              \* beforeChangeGroup calls whose afterChangeGroup is to come
    steps,               \* the recording entries (rec) and replays (rep) called so far
    pc,                  \* the caller's position in a scripted command sequence
    lastOp,              \* the entry that ran last (history variable)
    log,                 \* the handlers the last undo()/redo() invoked, in order
    saved                 \* snapshots of earlier states (history variable)

docVars == <<body, head, marked, dirty, children, alias, changed, sel>>
histVars == <<beads, bead, undoMenuLabel, redoMenuLabel>>
flagVars == <<undoing, redoing>>
cfgVars == <<granularity, max_undo_stack_size, unitTesting>>
callVars == <<pending, groups, steps, pc>>
vars == <<docVars, histVars, flagVars, cfgVars, callVars, lastOp, log, saved>>

-----------------------------------------------------------------------------
(* Bounds of the model *)

MaxOps == 3        \* the recording entries called in one behaviour
MaxReplays == 3    \* the undo() and redo() calls in one behaviour
StackLimit == 2    \* the positive value tried for max_undo_stack_size

-----------------------------------------------------------------------------
(* Values *)

None == "None"
NoSel == <<>>
NoText == <<"None">>
NoAlias == <<>>
NoTree == <<>>

Root == "root"                      \* the hidden root vnode
Vnodes == {"x", "y", "z"}           \* the vnodes of the outline
AllVnodes == Vnodes \cup {Root}

Bodies == {<<>>, <<"a">>}           \* body texts the commands write

NoPos == [v |-> None, parent |-> None, n |-> -1]

\* A g.Bunch with no attribute set: reading a missing attribute gives None.
Bunch0 ==
    [ kind |-> None, undoType |-> None, undoHelper |-> None, redoHelper |-> None,
      p |-> NoPos,
      oldChanged |-> FALSE, oldDirty |-> FALSE, oldMarked |-> FALSE, oldSel |-> NoSel,
      newChanged |-> FALSE, newDirty |-> FALSE, newMarked |-> FALSE, newSel |-> NoSel,
      oldBody |-> NoText, newBody |-> NoText, oldHead |-> None, newHead |-> None,
      hasItems |-> FALSE, items |-> <<>>,
      leading |-> -1, trailing |-> -1,
      oldMiddleLines |-> <<>>, newMiddleLines |-> <<>>,
      oldNewlines |-> -1, newNewlines |-> -1,
      children |-> <<>>, followingSibs |-> <<>>,
      oldChildren |-> <<>>, newChildren |-> <<>>, sortChildren |-> FALSE,
      oldN |-> -1, oldParent_v |-> None, newN |-> -1, newParent_v |-> None,
      newP |-> NoPos, oldBack |-> NoPos, oldParent |-> NoPos,
      newBack |-> NoPos, newParent |-> NoPos,
      oldTree |-> NoTree, newTree |-> NoTree ]

NoBunch == Bunch0

-----------------------------------------------------------------------------
(* Python list operations *)

Min(a, b) == IF a < b THEN a ELSE b
Max(a, b) == IF a > b THEN a ELSE b

\* s[:n] for n >= 0
Take(s, n) == SubSeq(s, 1, Min(n, Len(s)))
\* s[n:] for n >= 0
Drop(s, n) == SubSeq(s, Min(n, Len(s)) + 1, Len(s))
\* s[-n:] for n > 0
LastN(s, n) == SubSeq(s, Max(Len(s) - n, 0) + 1, Len(s))
\* s[:-n] for n >= 0 (s[:-0] is s[:0], the empty list)
DropLast(s, n) == IF n = 0 THEN <<>> ELSE SubSeq(s, 1, Max(Len(s) - n, 0))
\* s[i:-n] for i >= 0, n > 0
Middle(s, i, n) == SubSeq(s, Min(i, Len(s)) + 1, Max(Len(s) - n, 0))

Reverse(s) == [i \in 1..Len(s) |-> s[Len(s) + 1 - i]]

Range(s) == {s[i] : i \in 1..Len(s)}

\* s.index(x), 0-based
IndexOf(s, x) == (CHOOSE i \in 1..Len(s) : s[i] = x) - 1

-----------------------------------------------------------------------------
(* The outline *)

\* The position of vnode v in the outline (its only appearance).
PosOf(v) ==
    LET par == CHOOSE q \in AllVnodes : v \in Range(children[q])
    IN  [v |-> v, parent |-> par, n |-> IndexOf(children[par], v)]

Attached(v) == \E q \in AllVnodes : v \in Range(children[q])

\* The positions of vnode v in the outline whose child lists are ch: one
\* for every place of v in a child list.
Appearances(ch, v) ==
    UNION {{[v |-> v, parent |-> q, n |-> i - 1] :
               i \in {k \in DOMAIN ch[q] : ch[q][k] = v}} : q \in AllVnodes}

\* p.back(): the position of the sibling before p, or the null position
Back(ch, p) ==
    IF p.n > 0 /\ p.n <= Len(ch[p.parent])
    THEN [v |-> ch[p.parent][p.n], parent |-> p.parent, n |-> p.n - 1]
    ELSE NoPos

\* p.next(): the position of the sibling after p, or the null position
NextSib(ch, p) ==
    IF p.n + 1 < Len(ch[p.parent])
    THEN [v |-> ch[p.parent][p.n + 2], parent |-> p.parent, n |-> p.n + 1]
    ELSE NoPos

\* p.parent(): the position of p's parent, the null position for a
\* top-level node
ParentPos(ch, p) ==
    IF p.parent = Root \/ Appearances(ch, p.parent) = {} THEN NoPos
    ELSE CHOOSE q \in Appearances(ch, p.parent) : TRUE

-----------------------------------------------------------------------------
(* Internal helpers *)

redoMenuName(name) == IF name = "Can't Redo" THEN name ELSE "Redo " \o name

undoMenuName(name) == IF name = "Can't Undo" THEN name ELSE "Undo " \o name

\* peekBead(n) is not None
HasBead(bs, n) == n >= 0 /\ n < Len(bs)

peekBead(bs, n) == IF HasBead(bs, n) THEN bs[n + 1] ELSE NoBunch

\* A list object held by a bead survives while the bead is on the stack.
\* An alias is <<i, j, field>>: bead i of the stack (1-based), item j of
\* its items (0: the bead itself), and the attribute that holds the list;
\* <<i, j, field, k>> is the child list of record k of the tree the
\* attribute holds.
AliasAfterCut(a, shift) ==
    IF a = NoAlias THEN NoAlias
    ELSE IF a[1] <= shift THEN NoAlias
    ELSE [a EXCEPT ![1] = @ - shift]

AliasAfterPush(a, keep) ==
    IF a = NoAlias THEN NoAlias
    ELSE IF a[1] > keep THEN NoAlias
    ELSE a

\* cutStack with the cursor left one place too far.
cutStackCursorOffByOne(bs, b, n, testing) ==
    IF n > 0 /\ b >= n /\ ~testing
    THEN IF \E i \in 1..Len(bs) : bs[i].kind = "beforeGroup"
         THEN [beads |-> bs, bead |-> b, shift |-> 0]
         ELSE [beads |-> LastN(bs, n), bead |-> n,
               shift |-> Len(bs) - Len(LastN(bs, n))]
    ELSE [beads |-> bs, bead |-> b, shift |-> 0]

\* cutStack without the search for a bead of kind beforeGroup.
cutStackIgnoringGroups(bs, b, n, testing) ==
    IF n > 0 /\ b >= n /\ ~testing
    THEN [beads |-> LastN(bs, n), bead |-> n - 1,
          shift |-> Len(bs) - Len(LastN(bs, n))]
    ELSE [beads |-> bs, bead |-> b, shift |-> 0]

\* cutStack: the stack and cursor it leaves, as [beads, bead, shift].
cutStack(bs, b, n, testing) ==
    IF n > 0 /\ b >= n /\ ~testing
    THEN IF \E i \in 1..Len(bs) : bs[i].kind = "beforeGroup"
         THEN [beads |-> bs, bead |-> b, shift |-> 0]
         ELSE [beads |-> LastN(bs, n), bead |-> n - 1,
               shift |-> Len(bs) - Len(LastN(bs, n))]
    ELSE [beads |-> bs, bead |-> b, shift |-> 0]

\* setUndoTypes: both labels from the beads at and after the cursor, then
\* cutStack (the labels are not recomputed after the cut).
setUndoTypes(bs, b, n, testing) ==
    LET cut == cutStack(bs, b, n, testing)
    IN  [ undoMenuLabel |-> IF HasBead(bs, b)
                            THEN undoMenuName(peekBead(bs, b).undoType)
                            ELSE undoMenuName("Can't Undo"),
          redoMenuLabel |-> IF HasBead(bs, b + 1)
                            THEN redoMenuName(peekBead(bs, b + 1).undoType)
                            ELSE redoMenuName("Can't Redo"),
          beads |-> cut.beads, bead |-> cut.bead, shift |-> cut.shift ]

canRedo == redoMenuLabel # "Can't Redo"

canUndo == undoMenuLabel # "Can't Undo"

\* The bead at the cursor is a group that is still being accumulated.
OpenGroupAtCursor(bs, b) == HasBead(bs, b) /\ bs[b + 1].kind = "beforeGroup"

\* hasattr(bunch, 'items')
HasItems(bunch) == bunch.hasItems

\* A push that keeps the beads after the cursor.
PushKeepingForwardBeads(bs, b, bunch) == Append(bs, bunch)

\* u.bead += 1 ; u.beads[u.bead:] = [bunch]
PushOnStack(bs, b, bunch) == Append(Take(bs, b + 1), bunch)

\* The history a recording entry leaves, as
\* [beads, bead, undoMenuLabel, redoMenuLabel, keep, shift]: keep is the
\* number of old beads that survive the push, shift the number cutStack
\* removed from the front.
Unpushed(bs, b) ==
    [ beads |-> bs, bead |-> b,
      undoMenuLabel |-> undoMenuLabel, redoMenuLabel |-> redoMenuLabel,
      keep |-> Len(bs), shift |-> 0 ]

\* The direct push of beforeChangeGroup and beforeSort: no setUndoTypes.
pushDirect(bs, b, bunch) ==
    [ beads |-> PushOnStack(bs, b, bunch), bead |-> b + 1,
      undoMenuLabel |-> undoMenuLabel, redoMenuLabel |-> redoMenuLabel,
      keep |-> b + 1, shift |-> 0 ]

\* The direct push of afterPromote and afterDemote, and the else branch of
\* pushBead: push, then setUndoTypes.
pushAndSetTypes(bs, b, bunch) ==
    LET t == setUndoTypes(PushOnStack(bs, b, bunch), b + 1,
                          max_undo_stack_size, unitTesting)
    IN  [ beads |-> t.beads, bead |-> t.bead,
          undoMenuLabel |-> t.undoMenuLabel, redoMenuLabel |-> t.redoMenuLabel,
          keep |-> b + 1, shift |-> t.shift ]

pushBead(bs, b, bunch) ==
    IF OpenGroupAtCursor(bs, b)
    THEN [ beads |-> [bs EXCEPT ![b + 1].items = Append(@, bunch)], bead |-> b,
           undoMenuLabel |-> undoMenuLabel, redoMenuLabel |-> redoMenuLabel,
           keep |-> Len(bs), shift |-> 0 ]
    ELSE pushAndSetTypes(bs, b, bunch)

\* createCommonBunch(p), reading document d
createCommonBunch(p, d) ==
    [Bunch0 EXCEPT !.oldChanged = d.changed, !.oldDirty = d.dirty[p.v],
                   !.oldMarked = d.marked[p.v], !.oldSel = d.sel, !.p = p]

\* The history variables take the values of result r of a push.
SetHistory(r) ==
    /\ beads' = r.beads
    /\ bead' = r.bead
    /\ undoMenuLabel' = r.undoMenuLabel
    /\ redoMenuLabel' = r.redoMenuLabel

\* The aliases that survive a push with result r.
AliasesAfter(al, r) ==
    [v \in AllVnodes |-> AliasAfterCut(AliasAfterPush(al[v], r.keep), r.shift)]

-----------------------------------------------------------------------------
(* Texts *)

RECURSIVE Split(_)
\* string.split(s, '\n'): the lines of s, one more than its newlines
Split(s) ==
    IF s = <<>> THEN << <<>> >>
    ELSE LET rest == Split(Tail(s))
         IN  IF Head(s) = "\n"
             THEN << <<>> >> \o rest
             ELSE << <<Head(s)>> \o rest[1] >> \o Tail(rest)

RECURSIVE Join(_)
\* string.join(lines, '\n')
Join(lines) ==
    IF Len(lines) = 0 THEN <<>>
    ELSE IF Len(lines) = 1 THEN lines[1]
    ELSE lines[1] \o <<"\n">> \o Join(Tail(lines))

RECURSIVE splitLines(_)
\* g.splitLines(s): the lines of s, each keeping its newline; [] for ''
splitLines(s) ==
    IF s = <<>> THEN <<>>
    ELSE LET i == IF \E k \in 1..Len(s) : s[k] = "\n"
                  THEN CHOOSE k \in 1..Len(s) :
                           s[k] = "\n" /\ \A m \in 1..(k - 1) : s[m] # "\n"
                  ELSE Len(s)
         IN  <<SubSeq(s, 1, i)>> \o splitLines(SubSeq(s, i + 1, Len(s)))

RECURSIVE TrailingNewlines(_)
\* the number of '\n' that end s
TrailingNewlines(s) ==
    IF s # <<>> /\ s[Len(s)] = "\n"
    THEN 1 + TrailingNewlines(SubSeq(s, 1, Len(s) - 1))
    ELSE 0

\* s without the newlines that end it
StripNewlines(s) == SubSeq(s, 1, Len(s) - TrailingNewlines(s))

\* '\n' * n
Newlines(n) == [i \in 1..n |-> "\n"]

isspace(ch) == ch \in {" ", "\n"}

RECURSIVE CommonPrefix(_, _, _, _)
\* the first while loop: the number of equal leading lines, at most lim
CommonPrefix(a, b, i, lim) ==
    IF i < lim /\ a[i + 1] = b[i + 1] THEN CommonPrefix(a, b, i + 1, lim) ELSE i

RECURSIVE CommonSuffix(_, _, _, _)
\* the second while loop: the number of equal trailing lines, at most lim
CommonSuffix(a, b, i, lim) ==
    IF i < lim /\ a[Len(a) - i] = b[Len(b) - i]
    THEN CommonSuffix(a, b, i + 1, lim) ELSE i

\* << compute leading, middle & trailing lines >> of setUndoTypingParams
TextDiff(oldText, newText) ==
    LET old_lines == Split(oldText)
        new_lines == Split(newText)
        new_len == Len(new_lines)
        old_len == Len(old_lines)
        min_len == Min(old_len, new_len)
        leading == CommonPrefix(old_lines, new_lines, 0, min_len)
        trailing == IF leading = new_len THEN 0
                    ELSE CommonSuffix(old_lines, new_lines, 0, min_len - leading)
    IN  [ leading |-> leading, trailing |-> trailing,
          oldMiddleLines |-> IF trailing = 0 THEN Drop(old_lines, leading)
                             ELSE Middle(old_lines, leading, trailing),
          newMiddleLines |-> IF trailing = 0 THEN Drop(new_lines, leading)
                             ELSE Middle(new_lines, leading, trailing),
          oldNewlines |-> TrailingNewlines(oldText),
          newNewlines |-> TrailingNewlines(newText) ]

\* undoRedoText without the removal of the newlines that end the joined
\* lines.
undoRedoTextKeepingNewlines(bodyText, leading, trailing, oldMidLines, oldNewlines) ==
    LET body_lines == Split(bodyText)
        s == (IF leading > 0 THEN Take(body_lines, leading) ELSE <<>>)
             \o oldMidLines
             \o (IF trailing > 0 THEN LastN(body_lines, trailing) ELSE <<>>)
    IN  Join(s) \o Newlines(IF oldNewlines > 0 THEN oldNewlines ELSE 0)

\* << Compute the result using p's body text >> of undoRedoText: the text
\* rebuilt from the present body and one half of a typing bead.
undoRedoText(bodyText, leading, trailing, oldMidLines, oldNewlines) ==
    LET body_lines == Split(bodyText)
        s == (IF leading > 0 THEN Take(body_lines, leading) ELSE <<>>)
             \o oldMidLines
             \o (IF trailing > 0 THEN LastN(body_lines, trailing) ELSE <<>>)
    IN  StripNewlines(Join(s)) \o Newlines(IF oldNewlines > 0 THEN oldNewlines ELSE 0)

\* A selection range is <<start, end>>, each a Tk index <<row, col>>.
\* The insert point at the end of text t, as a range.
EndSel(t) ==
    LET lines == Split(t)
        i == <<Len(lines), Len(lines[Len(lines)])>>
    IN  <<i, i>>

\* A test of the start of a word that never finds one.
StartsWordNever(oldText, newText, oldSel, newSel) == FALSE

\* A test of the start of a word that finds one at every character.
StartsWordAlways(oldText, newText, oldSel, newSel) == TRUE

\* << set newBead if the change does not continue a word >>; an exception
\* in it (a selection that is None, a row with no line) gives newBead = True.
StartsWord(oldText, newText, oldSel, newSel) ==
    IF oldSel = NoSel \/ newSel = NoSel THEN TRUE
    ELSE
    LET old_start == oldSel[1]  old_end == oldSel[2]
        new_start == newSel[1]  new_end == newSel[2]
        old_row == old_start[1] old_col == old_start[2]
        new_row == new_start[1] new_col == new_start[2]
        old_lines == splitLines(oldText)
        new_lines == splitLines(newText)
    IN  IF old_start # old_end \/ new_start # new_end THEN TRUE
        ELSE IF old_row # new_row \/ (old_col - new_col) \notin {1, -1} THEN TRUE
        ELSE IF old_col = 0 \/ new_col = 0 THEN FALSE
        ELSE IF old_row - 1 >= Len(old_lines) \/ new_row - 1 >= Len(new_lines)
             THEN TRUE
        ELSE LET old_s == old_lines[old_row]
                 new_s == new_lines[new_row]
             IN  IF old_col - 1 >= Len(old_s) \/ new_col - 1 >= Len(new_s)
                 THEN TRUE
                 ELSE \* recognizeStartOfTypingWord
                      ~isspace(old_s[old_col]) /\ isspace(new_s[new_col])

\* NewBead with the bead at the cursor shared at granularity 'char'.
NewBeadCharShares(bs, b, gran, v, undo_type, d, oldText, newText, oldSel, newSel) ==
    LET old_d == peekBead(bs, b)
    IN  IF \/ ~HasBead(bs, b)
           \/ old_d.p = NoPos
           \/ old_d.p.v # v
           \/ old_d.kind # "typing"
           \/ old_d.undoType # "Typing"
           \/ undo_type # "Typing"
        THEN TRUE
        ELSE IF gran = "char" THEN FALSE
        ELSE IF gran = "node" THEN FALSE
        ELSE IF old_d.leading # d.leading \/ old_d.trailing # d.trailing THEN TRUE
        ELSE IF gran = "word" THEN StartsWord(oldText, newText, oldSel, newSel)
        ELSE FALSE

\* NewBead without the tests of the two labels.
NewBeadWhateverLabel(bs, b, gran, v, undo_type, d, oldText, newText, oldSel, newSel) ==
    LET old_d == peekBead(bs, b)
    IN  IF \/ ~HasBead(bs, b)
           \/ old_d.p = NoPos
           \/ old_d.p.v # v
           \/ old_d.kind # "typing"
        THEN TRUE
        ELSE IF gran = "char" THEN TRUE
        ELSE IF gran = "node" THEN FALSE
        ELSE IF old_d.leading # d.leading \/ old_d.trailing # d.trailing THEN TRUE
        ELSE IF gran = "word" THEN StartsWord(oldText, newText, oldSel, newSel)
        ELSE FALSE

\* NewBead without the test of the leading and trailing counts.
NewBeadWhateverLines(bs, b, gran, v, undo_type, d, oldText, newText, oldSel, newSel) ==
    LET old_d == peekBead(bs, b)
    IN  IF \/ ~HasBead(bs, b)
           \/ old_d.p = NoPos
           \/ old_d.p.v # v
           \/ old_d.kind # "typing"
           \/ old_d.undoType # "Typing"
           \/ undo_type # "Typing"
        THEN TRUE
        ELSE IF gran = "char" THEN TRUE
        ELSE IF gran = "node" THEN FALSE
        ELSE IF gran = "word" THEN StartsWord(oldText, newText, oldSel, newSel)
        ELSE FALSE

\* << set newBead if we can't share the previous bead >>
NewBead(bs, b, gran, v, undo_type, d, oldText, newText, oldSel, newSel) ==
    LET old_d == peekBead(bs, b)
    IN  IF \/ ~HasBead(bs, b)
           \/ old_d.p = NoPos
           \/ old_d.p.v # v
           \/ old_d.kind # "typing"
           \/ old_d.undoType # "Typing"
           \/ undo_type # "Typing"
        THEN TRUE
        ELSE IF gran = "char" THEN TRUE
        ELSE IF gran = "node" THEN FALSE
        ELSE IF old_d.leading # d.leading \/ old_d.trailing # d.trailing THEN TRUE
        ELSE IF gran = "word" THEN StartsWord(oldText, newText, oldSel, newSel)
        ELSE FALSE

\* The typing bunch of setUndoTypingParams, all its attributes set.
TypingBunch(p, undo_type, d, oldSel, newSel) ==
    [Bunch0 EXCEPT !.p = p, !.kind = "typing", !.undoType = undo_type,
                   !.undoHelper = "undoTyping", !.redoHelper = "redoTyping",
                   !.oldSel = oldSel, !.oldNewlines = d.oldNewlines,
                   !.oldMiddleLines = d.oldMiddleLines,
                   !.leading = d.leading, !.trailing = d.trailing,
                   !.newNewlines = d.newNewlines,
                   !.newMiddleLines = d.newMiddleLines, !.newSel = newSel]

\* The bead at the cursor with every field of the TextDiff, the old middle
\* lines and newline count included, taken from the event that shares it.
ExtendedBunchLosingOldHalf(old_d, d, newSel) ==
    [old_d EXCEPT !.leading = d.leading, !.trailing = d.trailing,
                  !.oldNewlines = d.oldNewlines,
                  !.oldMiddleLines = d.oldMiddleLines,
                  !.newNewlines = d.newNewlines,
                  !.newMiddleLines = d.newMiddleLines, !.newSel = newSel]

\* The bead at the cursor adjusted by an event that shares it.
ExtendedBunch(old_d, d, newSel) ==
    [old_d EXCEPT !.leading = d.leading, !.trailing = d.trailing,
                  !.newNewlines = d.newNewlines,
                  !.newMiddleLines = d.newMiddleLines, !.newSel = newSel]

-----------------------------------------------------------------------------
(* The document and the state a handler works on *)

\* The document as a record.
Doc ==
    [ body |-> body, head |-> head, marked |-> marked, dirty |-> dirty,
      children |-> children, alias |-> alias, changed |-> changed, sel |-> sel ]

SetDoc(d) ==
    /\ body' = d.body
    /\ head' = d.head
    /\ marked' = d.marked
    /\ dirty' = d.dirty
    /\ children' = d.children
    /\ alias' = d.alias
    /\ changed' = d.changed
    /\ sel' = d.sel

\* A handler maps a state W to a state W: the document, the beads (a
\* handler can write to a list a bead holds), the undoer's ivars u loaded
\* by setIvarsFromBunch, the place path = <<i, j>> of the bunch they were
\* loaded from, the log of the handlers invoked, and selBy, the handlers
\* that have set the selection range of the body widget.
World(d, bs, bunch, path) ==
    [ body |-> d.body, head |-> d.head, marked |-> d.marked, dirty |-> d.dirty,
      children |-> d.children, alias |-> d.alias, changed |-> d.changed,
      sel |-> d.sel, beads |-> bs, u |-> bunch, path |-> path, log |-> <<>>,
      selBy |-> <<>> ]

DocOf(W) ==
    [ body |-> W.body, head |-> W.head, marked |-> W.marked, dirty |-> W.dirty,
      children |-> W.children, alias |-> W.alias, changed |-> W.changed,
      sel |-> W.sel ]

\* v.t.children = <a new list>
SetChildren(W, v, list) ==
    [W EXCEPT !.children[v] = list, !.alias[v] = NoAlias]

\* v.t.children = <the list that attribute field of the loaded bunch holds>
SetChildrenTo(W, v, field) ==
    [W EXCEPT !.children[v] = W.u[field],
              !.alias[v] = <<W.path[1], W.path[2], field>>]

\* The beads after list object a, which a bead holds, has become list.
HeldList(bs, a, list) ==
    IF Len(a) = 4
    THEN IF a[2] = 0
         THEN [bs EXCEPT ![a[1]][a[3]][a[4]].children = list]
         ELSE [bs EXCEPT ![a[1]].items[a[2]][a[3]][a[4]].children = list]
    ELSE IF a[2] = 0 THEN [bs EXCEPT ![a[1]][a[3]] = list]
    ELSE [bs EXCEPT ![a[1]].items[a[2]][a[3]] = list]

\* v.t.children.extend(extra): in place, so a bead that holds the same list
\* object sees the change.
ExtendChildren(W, v, extra) ==
    LET list == W.children[v] \o extra
        a == W.alias[v]
    IN  IF a = NoAlias THEN [W EXCEPT !.children[v] = list]
        ELSE [W EXCEPT !.children[v] = list, !.beads = HeldList(@, a, list)]

\* An in-place change of v.t.children to list (del, insert): a bead that
\* holds the same list object sees the change.
ChangeChildrenInPlace(W, v, list) ==
    LET a == W.alias[v]
    IN  IF a = NoAlias THEN [W EXCEPT !.children[v] = list]
        ELSE [W EXCEPT !.children[v] = list, !.beads = HeldList(@, a, list)]

\* list.insert(n, x) and del list[n], n >= 0
Inserted(list, n, x) == Take(list, n) \o <<x>> \o Drop(list, n)

Deleted(list, n) == Take(list, n) \o Drop(list, n + 1)

\* parent_v.t.children[n] == v, an IndexError being a failure too
IsChildAt(W, parent_v, n, v) ==
    n < Len(W.children[parent_v]) /\ W.children[parent_v][n + 1] = v

-----------------------------------------------------------------------------
(* Handlers *)

\* c.frame.body.setSelectionRange(s), called by handler by
setSelectionRange(W, s, by) == [W EXCEPT !.sel = s, !.selBy = Append(@, by)]

updateMarks(W, oldOrNew) ==
    LET isOld == oldOrNew = "old"
        mark == IF isOld THEN W.u.oldMarked ELSE W.u.newMarked
        v == W.u.p.v
    IN  [W EXCEPT !.marked[v] = mark, !.dirty[v] = TRUE, !.changed = TRUE]

undoNodeContents(W, groupCount) ==
    LET u == W.u
        W1 == [W EXCEPT !.body[u.p.v] = u.oldBody, !.head[u.p.v] = u.oldHead]
        W2 == IF groupCount = 0 /\ u.oldSel # NoSel
              THEN setSelectionRange(W1, u.oldSel, "undoNodeContents") ELSE W1
    IN  updateMarks(W2, "old")

redoNodeContents(W, groupCount) ==
    LET u == W.u
        W1 == [W EXCEPT !.body[u.p.v] = u.newBody, !.head[u.p.v] = u.newHead]
        W2 == IF groupCount = 0 /\ u.newSel # NoSel
              THEN setSelectionRange(W1, u.newSel, "redoNodeContents") ELSE W1
    IN  updateMarks(W2, "new")

undoTyping(W, groupCount) ==
    LET u == W.u
        W1 == [W EXCEPT !.body[u.p.v] =
                   undoRedoText(@, u.leading, u.trailing, u.oldMiddleLines,
                                u.oldNewlines)]
        W2 == updateMarks(W1, "old")
    IN  IF u.oldSel # NoSel THEN setSelectionRange(W2, u.oldSel, "undoTyping")
        ELSE W2

redoTyping(W, groupCount) ==
    LET u == W.u
        W1 == [W EXCEPT !.body[u.p.v] =
                   undoRedoText(@, u.leading, u.trailing, u.newMiddleLines,
                                u.newNewlines)]
        W2 == updateMarks(W1, "new")
    IN  IF u.newSel # NoSel THEN setSelectionRange(W2, u.newSel, "redoTyping")
        ELSE W2

undoSort(W, groupCount) == SetChildrenTo(W, W.u.p.parent, "oldChildren")

redoSort(W, groupCount) == SetChildrenTo(W, W.u.p.parent, "newChildren")

\* createVnodeUndoInfo(v) and createTnodeUndoInfo(v.t), reading document d:
\* the status bits, the headline and the body, and a copy of the child list.
createUndoInfo(d, v) ==
    [ v |-> v, marked |-> d.marked[v], dirty |-> d.dirty[v],
      children |-> d.children[v], headString |-> d.head[v],
      bodyString |-> d.body[v] ]

RECURSIVE saveTree(_, _)
RECURSIVE saveTrees(_, _)
\* saveTree(p): the record of p.v, then the trees of its children in order.
saveTree(d, v) == <<createUndoInfo(d, v)>> \o saveTrees(d, d.children[v])

\* The loop of saveTree over the children: child = child.next()
saveTrees(d, list) ==
    IF list = <<>> THEN <<>>
    ELSE saveTree(d, Head(list)) \o saveTrees(d, Tail(list))

\* restoreVnodeUndoInfo and restoreTnodeUndoInfo for record k of the tree
\* that attribute field of the loaded bunch holds: v.t.children becomes the
\* list object of the record.
restoreUndoInfo(W, field, k) ==
    LET r == W.u[field][k]
    IN  [W EXCEPT !.marked[r.v] = r.marked, !.dirty[r.v] = r.dirty,
                  !.children[r.v] = r.children,
                  !.alias[r.v] = <<W.path[1], W.path[2], field, k>>,
                  !.head[r.v] = r.headString, !.body[r.v] = r.bodyString]

RECURSIVE restoreTreeFrom(_, _, _)
\* for v,vInfo,tInfo in treeInfo: records k, k+1, ..., the last
restoreTreeFrom(W, field, k) ==
    IF k > Len(W.u[field]) THEN W
    ELSE restoreTreeFrom(restoreUndoInfo(W, field, k), field, k + 1)

restoreTree(W, field) == restoreTreeFrom(W, field, 1)

\* undoRedoTree(p, new_data, old_data). new_data is never None: every tree
\* bunch has both trees from afterChangeTree. c.setBodyString(p,
\* p.bodyString()) writes the body the node already has.
undoRedoTree(W, new_data, old_data) == restoreTree(W, old_data)

undoTree(W, groupCount) ==
    LET W1 == undoRedoTree(W, "newTree", "oldTree")
    IN  IF W.u.oldSel # NoSel THEN setSelectionRange(W1, W.u.oldSel, "undoTree")
        ELSE W1

redoTree(W, groupCount) ==
    LET W1 == undoRedoTree(W, "oldTree", "newTree")
    IN  IF W.u.newSel # NoSel THEN setSelectionRange(W1, W.u.newSel, "redoTree")
        ELSE W1

\* undoPromote taking the slice one place too early, at p itself.
undoPromoteFromP(W, groupCount) ==
    LET u == W.u
        parent_v == u.p.parent
        n == u.p.n
        z == W.children[parent_v]
        W1 == SetChildren(W, parent_v, Take(z, n) \o Drop(z, n + Len(u.children)))
    IN  SetChildren(W1, u.p.v, u.children)

undoPromote(W, groupCount) ==
    LET u == W.u
        parent_v == u.p.parent
        n == u.p.n + 1
        z == W.children[parent_v]
        W1 == SetChildren(W, parent_v, Take(z, n) \o Drop(z, n + Len(u.children)))
    IN  SetChildren(W1, u.p.v, u.children)

redoPromote(W, groupCount) ==
    LET u == W.u
        parent_v == u.p.parent
        n == u.p.n + 1
        z == W.children[parent_v]
        W1 == SetChildren(W, parent_v, Take(z, n) \o u.children \o Drop(z, n))
    IN  SetChildren(W1, u.p.v, <<>>)

undoDemote(W, groupCount) ==
    LET u == W.u
        parent_v == u.p.parent
        n == Len(u.followingSibs)
        W1 == SetChildren(W, u.p.v, DropLast(W.children[u.p.v], n))
    IN  ExtendChildren(W1, parent_v, u.followingSibs)

redoDemote(W, groupCount) ==
    LET u == W.u
        parent_v == u.p.parent
        n == u.p.n
        W1 == SetChildren(W, parent_v, Take(W.children[parent_v], n + 1))
    IN  ExtendChildren(W1, u.p.v, u.followingSibs)

\* undoMove putting the node back as the last child of its old parent.
undoMoveToTheEnd(W, groupCount) ==
    LET u == W.u
        v == u.p.v
    IN  IF ~IsChildAt(W, u.newParent_v, u.newN, v) THEN W
        ELSE LET W1 == ChangeChildrenInPlace(W, u.newParent_v,
                           Deleted(W.children[u.newParent_v], u.newN))
                 W2 == ChangeChildrenInPlace(W1, u.oldParent_v,
                           Append(W1.children[u.oldParent_v], v))
             IN  updateMarks(W2, "old")

\* undoMove: the assert raises when the node is not where the bead says.
undoMove(W, groupCount) ==
    LET u == W.u
        v == u.p.v
    IN  IF ~IsChildAt(W, u.newParent_v, u.newN, v) THEN W
        ELSE LET W1 == ChangeChildrenInPlace(W, u.newParent_v,
                           Deleted(W.children[u.newParent_v], u.newN))
                 W2 == ChangeChildrenInPlace(W1, u.oldParent_v,
                           Inserted(W1.children[u.oldParent_v], u.oldN, v))
             IN  updateMarks(W2, "old")

redoMove(W, groupCount) ==
    LET u == W.u
        v == u.p.v
    IN  IF ~IsChildAt(W, u.oldParent_v, u.oldN, v) THEN W
        ELSE LET W1 == ChangeChildrenInPlace(W, u.oldParent_v,
                           Deleted(W.children[u.oldParent_v], u.oldN))
                 W2 == ChangeChildrenInPlace(W1, u.newParent_v,
                           Inserted(W1.children[u.newParent_v], u.newN, v))
             IN  updateMarks(W2, "new")

\* c.deleteOutline() with position p selected: nothing without a node to
\* select afterwards (no node before p in the outline and no next sibling);
\* else p is unlinked from its parent's child list. The calls of
\* beforeDeleteNode and afterDeleteNode it makes return at once during a
\* replay.
deleteOutline(W, p) ==
    IF (p.parent = Root /\ p.n = 0) /\ NextSib(W.children, p) = NoPos THEN W
    ELSE IF ~IsChildAt(W, p.parent, p.n, p.v) THEN W
    ELSE [ChangeChildrenInPlace(W, p.parent, Deleted(W.children[p.parent], p.n))
             EXCEPT !.changed = TRUE]

\* p._linkAfter(p_after): p.v becomes the next sibling of p_after
linkAfter(W, p, p_after) ==
    ChangeChildrenInPlace(W, p_after.parent,
        Inserted(W.children[p_after.parent], p_after.n + 1, p.v))

\* p._linkAsNthChild(parent, n)
linkAsNthChild(W, p, parent, n) ==
    ChangeChildrenInPlace(W, parent.v, Inserted(W.children[parent.v], n, p.v))

\* p._linkAsRoot(oldRoot): p.v becomes the first top-level node
linkAsRoot(W, p) ==
    ChangeChildrenInPlace(W, Root, Inserted(W.children[Root], 0, p.v))

undoCloneNode(W, groupCount) == deleteOutline(W, W.u.newP)

redoCloneNode(W, groupCount) ==
    LET u == W.u
    IN  IF u.newBack # NoPos THEN linkAfter(W, u.newP, u.newBack)
        ELSE IF u.newParent # NoPos THEN linkAsNthChild(W, u.newP, u.newParent, 0)
        ELSE linkAsRoot(W, u.newP)

\* undoDeleteNode linking the node as the first top-level node, whatever
\* the bunch holds.
undoDeleteNodeAsRoot(W, groupCount) == linkAsRoot(W, W.u.p)

undoDeleteNode(W, groupCount) ==
    LET u == W.u
    IN  IF u.oldBack # NoPos THEN linkAfter(W, u.p, u.oldBack)
        ELSE IF u.oldParent # NoPos THEN linkAsNthChild(W, u.p, u.oldParent, 0)
        ELSE linkAsRoot(W, u.p)

redoDeleteNode(W, groupCount) == deleteOutline(W, W.u.p)

\* z.undoHelper() / z.redoHelper() for a bunch that is not a group
\* (pushBead never receives a group, so no item of a group is a group).
RunHelper(name, W, groupCount) ==
    CASE name = "undoNodeContents" -> undoNodeContents(W, groupCount)
      [] name = "redoNodeContents" -> redoNodeContents(W, groupCount)
      [] name = "undoTyping" -> undoTyping(W, groupCount)
      [] name = "redoTyping" -> redoTyping(W, groupCount)
      [] name = "undoSort" -> undoSort(W, groupCount)
      [] name = "redoSort" -> redoSort(W, groupCount)
      [] name = "undoTree" -> undoTree(W, groupCount)
      [] name = "redoTree" -> redoTree(W, groupCount)
      [] name = "undoPromote" -> undoPromote(W, groupCount)
      [] name = "redoPromote" -> redoPromote(W, groupCount)
      [] name = "undoDemote" -> undoDemote(W, groupCount)
      [] name = "redoDemote" -> redoDemote(W, groupCount)
      [] name = "undoMove" -> undoMove(W, groupCount)
      [] name = "redoMove" -> redoMove(W, groupCount)
      [] name = "undoCloneNode" -> undoCloneNode(W, groupCount)
      [] name = "redoCloneNode" -> redoCloneNode(W, groupCount)
      [] name = "undoDeleteNode" -> undoDeleteNode(W, groupCount)
      [] name = "redoDeleteNode" -> redoDeleteNode(W, groupCount)
      [] OTHER -> W

\* One turn of the loop of undoGroup/redoGroup: setIvarsFromBunch(z), then
\* z's handler, for item k of bead g of the stack.
RunItem(W, g, k, isUndo) ==
    LET z == W.beads[g].items[k]
        name == IF isUndo THEN z.undoHelper ELSE z.redoHelper
        W1 == [W EXCEPT !.u = z, !.path = <<g, k>>]
    IN  IF name # None
        THEN RunHelper(name, [W1 EXCEPT !.log = Append(@, [helper |-> name, bunch |-> z])], 1)
        ELSE W1

RECURSIVE UndoItems(_, _, _)
\* for z in reversedItems: items k, k-1, ..., 1
UndoItems(W, g, k) ==
    IF k = 0 THEN W ELSE UndoItems(RunItem(W, g, k, TRUE), g, k - 1)

RECURSIVE RedoItems(_, _, _)
\* for z in bunch.items: items k, k+1, ..., the last
RedoItems(W, g, k) ==
    IF k > Len(W.beads[g].items) THEN W ELSE RedoItems(RunItem(W, g, k, FALSE), g, k + 1)

\* The index (1-based) of u.beads[u.bead], with Python's negative index.
CursorBead(bs, b) == IF b < 0 THEN Len(bs) + b + 1 ELSE b + 1

\* The bead redoGroup takes its items from: u.beads[u.bead], although
\* redo() has not yet moved the cursor onto the group.
redoGroupBead(bs, b) == CursorBead(bs, b)

undoGroup(W, b) ==
    LET oldSel == W.u.oldSel
        g == CursorBead(W.beads, b)
        bunch == W.beads[g]
        W1 == IF ~HasItems(bunch) THEN W ELSE UndoItems(W, g, Len(bunch.items))
        W2 == updateMarks(W1, "old")
    IN  IF oldSel # NoSel THEN setSelectionRange(W2, oldSel, "undoGroup") ELSE W2

redoGroup(W, b) ==
    LET newSel == W.u.newSel
        g == redoGroupBead(W.beads, b)
        bunch == W.beads[g]
        W1 == IF ~HasItems(bunch) THEN W ELSE RedoItems(W, g, 1)
        W2 == updateMarks(W1, "new")
    IN  IF newSel # NoSel THEN setSelectionRange(W2, newSel, "redoGroup") ELSE W2

\* u.undoHelper() / u.redoHelper() in undo() and redo(), cursor at b
Helper(name, W, b) ==
    IF name = "undoGroup" THEN undoGroup(W, b)
    ELSE IF name = "redoGroup" THEN redoGroup(W, b)
    ELSE RunHelper(name, W, 0)

-----------------------------------------------------------------------------
(* What the commands around the entries do to the document *)

NoPending == [tag |-> "none", bunch |-> NoBunch]

\* A command writes body b and headline h to v.
NodeEdit(d, v, b, h) ==
    [d EXCEPT !.body[v] = b, !.head[v] = h, !.dirty[v] = TRUE, !.changed = TRUE]

\* The body widget's change that a typing event reports.
TypingEdit(d, v, newText, newSel) ==
    [d EXCEPT !.body[v] = newText, !.sel = newSel, !.dirty[v] = TRUE,
              !.changed = TRUE]

\* c.promote: the children of p become the siblings that follow p.
PromoteEdit(W, p) ==
    LET z == W.children[p.parent]
        W1 == SetChildren(W, p.parent,
                          Take(z, p.n + 1) \o W.children[p.v] \o Drop(z, p.n + 1))
    IN  [SetChildren(W1, p.v, <<>>) EXCEPT !.changed = TRUE]

\* c.demote: the siblings that follow p become the last children of p.
DemoteEdit(W, p) ==
    LET z == W.children[p.parent]
        W1 == SetChildren(W, p.parent, Take(z, p.n + 1))
    IN  [ExtendChildren(W1, p.v, Drop(z, p.n + 1)) EXCEPT !.changed = TRUE]

\* A move command: p.v leaves its parent and becomes child n of newParent.
MoveEdit(W, p, newParent, n) ==
    LET W1 == SetChildren(W, p.parent, Deleted(W.children[p.parent], p.n))
    IN  [SetChildren(W1, newParent, Inserted(W1.children[newParent], n, p.v))
            EXCEPT !.dirty[p.v] = TRUE, !.changed = TRUE]

\* A command that changes the tree of p: it reverses the children of p.v,
\* writes body text b to the first child of p.v, or marks p.v.
TreeEdit(W, p, e) ==
    LET v == p.v
        first == IF W.children[v] = <<>> THEN v ELSE W.children[v][1]
    IN  CASE e = "reverse" ->
                 [SetChildren(W, v, Reverse(W.children[v]))
                     EXCEPT !.dirty[v] = TRUE, !.changed = TRUE]
          [] e = "body" ->
                 [W EXCEPT !.body[first] = IF @ = <<>> THEN <<"a">> ELSE <<>>,
                           !.dirty[first] = TRUE, !.changed = TRUE]
          [] OTHER ->
                 [W EXCEPT !.marked[v] = ~@, !.dirty[v] = TRUE, !.changed = TRUE]

RECURSIVE InSubtree(_, _)
\* q is v or a descendant of v
InSubtree(q, v) ==
    q = v \/ \E c \in Range(children[v]) : InSubtree(q, c)

-----------------------------------------------------------------------------
(* Actions: the entries of the undoer *)

Replaying == redoing \/ undoing

\* What lastOp says of an entry: whether it got past its guards, whether
\* it recorded a new bunch, how many beads cutStack removed, whether it
\* raised an exception and, for undo() and redo(), the handlers that set
\* the selection range.
Op(op, ran, pushed, shift) ==
    [op |-> op, ran |-> ran, pushed |-> pushed, shift |-> shift, sels |-> <<>>,
     raised |-> FALSE]

\* An entry ran: history r, document d; pushed says it recorded a new bunch.
Recorded(op, d, r, pushed) ==
    /\ SetHistory(r)
    /\ SetDoc([d EXCEPT !.alias = AliasesAfter(@, r)])
    /\ lastOp' = Op(op, TRUE, pushed, r.shift)
    /\ log' = <<>>
    /\ UNCHANGED <<flagVars, cfgVars>>

\* An entry found nothing to record and returned after setUndoTypes, which
\* left history r.
NothingToRecord(op, r) ==
    /\ SetHistory(r)
    /\ SetDoc([Doc EXCEPT !.alias = AliasesAfter(@, r)])
    /\ lastOp' = Op(op, FALSE, FALSE, r.shift)
    /\ log' = <<>>
    /\ UNCHANGED <<flagVars, cfgVars>>

\* An entry returned without touching the history.
Returned(op, d) ==
    /\ SetDoc(d)
    /\ lastOp' = Op(op, FALSE, FALSE, 0)
    /\ log' = <<>>
    /\ UNCHANGED <<histVars, flagVars, cfgVars>>

\* An entry raised an exception before it changed anything.
Raised(op) ==
    /\ lastOp' = [Op(op, FALSE, FALSE, 0) EXCEPT !.raised = TRUE]
    /\ log' = <<>>
    /\ UNCHANGED <<docVars, histVars, flagVars, cfgVars>>

\* clearUndoState resetting the labels only.
clearUndoStateKeepingBeads ==
    /\ pending = NoPending
    /\ undoMenuLabel' = undoMenuName("Can't Undo")
    /\ redoMenuLabel' = redoMenuName("Can't Redo")
    /\ lastOp' = Op("clearUndoState", TRUE, FALSE, 0)
    /\ log' = <<>>
    /\ UNCHANGED <<docVars, beads, bead, flagVars, cfgVars, pending>>

clearUndoState ==
    /\ pending = NoPending
    /\ beads' = <<>>
    /\ bead' = -1
    /\ undoMenuLabel' = undoMenuName("Can't Undo")
    /\ redoMenuLabel' = redoMenuName("Can't Redo")
    /\ alias' = [v \in AllVnodes |-> NoAlias]
    /\ lastOp' = Op("clearUndoState", TRUE, FALSE, 0)
    /\ log' = <<>>
    /\ UNCHANGED <<body, head, marked, dirty, children, changed, sel>>
    /\ UNCHANGED <<flagVars, cfgVars, pending>>

\* beforeChangeNodeContents(p, oldBody, oldHead): the bunch goes to the caller.
beforeChangeNodeContents(v, oldBody, oldHead) ==
    /\ pending = NoPending
    /\ Attached(v)
    /\ pending' = [ tag |-> "node",
                    bunch |-> [createCommonBunch(PosOf(v), Doc) EXCEPT
                        !.oldBody = IF oldBody \notin {NoText, <<>>}
                                    THEN oldBody ELSE body[v],
                        !.oldHead = IF oldHead \notin {None, ""}
                                    THEN oldHead ELSE head[v]] ]
    /\ lastOp' = Op("beforeChangeNodeContents", TRUE, FALSE, 0)
    /\ log' = <<>>
    /\ UNCHANGED <<docVars, histVars, flagVars, cfgVars>>

\* The command writes (b, h) to the node, then afterChangeNodeContents.
afterChangeNodeContents(command, b, h) ==
    /\ pending.tag = "node"
    /\ pending' = NoPending
    /\ LET p == pending.bunch.p
           d == NodeEdit(Doc, p.v, b, h)
           bunch == [pending.bunch EXCEPT
                        !.kind = "node", !.undoType = command,
                        !.undoHelper = "undoNodeContents",
                        !.redoHelper = "redoNodeContents",
                        !.newBody = d.body[p.v], !.newChanged = d.changed,
                        !.newDirty = d.dirty[p.v], !.newHead = d.head[p.v],
                        !.newMarked = d.marked[p.v], !.newSel = d.sel]
       IN  /\ b # body[p.v] \/ h # head[p.v]
           /\ IF Replaying THEN Returned("afterChangeNodeContents", d)
              ELSE Recorded("afterChangeNodeContents", d,
                            pushBead(beads, bead, bunch), TRUE)

beforeChangeGroup(v, command) ==
    /\ pending = NoPending
    /\ Attached(v)
    /\ LET bunch == [createCommonBunch(PosOf(v), Doc) EXCEPT
                        !.kind = "beforeGroup", !.undoType = command,
                        !.undoHelper = "undoGroup", !.redoHelper = "redoGroup",
                        !.hasItems = TRUE, !.items = <<>>]
       IN  Recorded("beforeChangeGroup", Doc, pushDirect(beads, bead, bunch), TRUE)
    /\ UNCHANGED pending

\* afterChangeGroup with the push that the code has under `if 0:`.
afterChangeGroupPushing(command) ==
    /\ pending = NoPending
    /\ UNCHANGED pending
    /\ IF Replaying THEN Returned("afterChangeGroup", Doc)
       ELSE IF beads = <<>> THEN Raised("afterChangeGroup")
       ELSE LET g == CursorBead(beads, bead)
                bunch == [beads[g] EXCEPT
                             !.kind = "afterGroup", !.undoType = command,
                             !.undoHelper = "undoGroup", !.redoHelper = "redoGroup",
                             !.newSel = sel]
            IN  Recorded("afterChangeGroup", Doc,
                         pushAndSetTypes([beads EXCEPT ![g] = bunch], bead, bunch),
                         FALSE)

\* afterChangeGroup: u.beads[u.bead] raises IndexError on an empty list.
afterChangeGroup(command) ==
    /\ pending = NoPending
    /\ UNCHANGED pending
    /\ IF Replaying THEN Returned("afterChangeGroup", Doc)
       ELSE IF beads = <<>> THEN Raised("afterChangeGroup")
       ELSE LET g == CursorBead(beads, bead)
                bunch == [beads[g] EXCEPT
                             !.kind = "afterGroup", !.undoType = command,
                             !.undoHelper = "undoGroup", !.redoHelper = "redoGroup",
                             !.newSel = sel]
                t == setUndoTypes([beads EXCEPT ![g] = bunch], bead,
                                  max_undo_stack_size, unitTesting)
            IN  Recorded("afterChangeGroup", Doc,
                         [ beads |-> t.beads, bead |-> t.bead,
                           undoMenuLabel |-> t.undoMenuLabel,
                           redoMenuLabel |-> t.redoMenuLabel,
                           keep |-> Len(beads), shift |-> t.shift ],
                         FALSE)

\* beforeSort: the sort bead is pushed before the siblings are reordered.
beforeSort(v, undoType, newChildren) ==
    /\ pending = NoPending
    /\ Attached(v)
    /\ LET p == PosOf(v)
           bunch == [createCommonBunch(p, Doc) EXCEPT
                        !.kind = "sort", !.undoType = undoType,
                        !.undoHelper = "undoSort", !.redoHelper = "redoSort",
                        !.oldChildren = children[p.parent],
                        !.newChildren = newChildren, !.sortChildren = FALSE]
       IN  /\ newChildren # children[p.parent]
           /\ Recorded("beforeSort", Doc, pushDirect(beads, bead, bunch), TRUE)
           /\ pending' = [tag |-> "sort", bunch |-> bunch]

\* The command makes newChildren the parent's list, then afterSort.
afterSort ==
    /\ pending.tag = "sort"
    /\ pending' = NoPending
    /\ LET parent_v == pending.bunch.p.parent
           d == [Doc EXCEPT !.children[parent_v] = pending.bunch.newChildren,
                            !.alias[parent_v] = <<bead + 1, 0, "newChildren">>,
                            !.changed = TRUE]
           t == setUndoTypes(beads, bead, max_undo_stack_size, unitTesting)
       IN  IF Replaying THEN Returned("afterSort", d)
           ELSE Recorded("afterSort", d,
                         [ beads |-> t.beads, bead |-> t.bead,
                           undoMenuLabel |-> t.undoMenuLabel,
                           redoMenuLabel |-> t.redoMenuLabel,
                           keep |-> Len(beads), shift |-> t.shift ],
                         FALSE)

\* c.promote moves the children of p, then afterPromote(p, children).
afterPromote(v) ==
    /\ pending = NoPending
    /\ Attached(v)
    /\ children[v] # <<>>
    /\ LET p == PosOf(v)
           W == PromoteEdit(World(Doc, beads, NoBunch, <<0, 0>>), p)
           bunch == [createCommonBunch(p, DocOf(W)) EXCEPT
                        !.kind = "promote", !.undoType = "Promote",
                        !.undoHelper = "undoPromote", !.redoHelper = "redoPromote",
                        !.children = children[v]]
       IN  Recorded("afterPromote", DocOf(W), pushAndSetTypes(W.beads, bead, bunch),
                    TRUE)
    /\ UNCHANGED pending

\* The siblings after p become children of p, then
\* afterDemote(p, followingSibs).
afterDemote(v) ==
    /\ pending = NoPending
    /\ Attached(v)
    /\ LET p == PosOf(v)
           followingSibs == Drop(children[p.parent], p.n + 1)
           W == DemoteEdit(World(Doc, beads, NoBunch, <<0, 0>>), p)
           bunch == [createCommonBunch(p, DocOf(W)) EXCEPT
                        !.kind = "demote", !.undoType = "Demote",
                        !.undoHelper = "undoDemote", !.redoHelper = "redoDemote",
                        !.followingSibs = followingSibs]
       IN  Recorded("afterDemote", DocOf(W), pushAndSetTypes(W.beads, bead, bunch),
                    TRUE)
    /\ UNCHANGED pending

\* setUndoTypingParams without the return for oldText == newText.
setUndoTypingParamsWithoutNoChangeTest(v, undo_type, newText, oldSel, newSel) ==
    /\ pending = NoPending
    /\ Attached(v)
    /\ UNCHANGED pending
    /\ LET p == PosOf(v)
           oldText == body[v]
           d == TypingEdit(Doc, v, newText, newSel)
           diff == TextDiff(oldText, newText)
           newBead == NewBead(beads, bead, granularity, v, undo_type, diff,
                              oldText, newText, oldSel, newSel)
           bunch == IF newBead THEN TypingBunch(p, undo_type, diff, oldSel, newSel)
                    ELSE ExtendedBunch(beads[bead + 1], diff, newSel)
           t0 == setUndoTypes(<<>>, -1, max_undo_stack_size, unitTesting)
       IN  IF Replaying \/ undo_type = None
           THEN Returned("setUndoTypingParams", d)
           ELSE IF undo_type = "Can't Undo"
           THEN Recorded("setUndoTypingParams", d,
                         [ beads |-> t0.beads, bead |-> t0.bead,
                           undoMenuLabel |-> t0.undoMenuLabel,
                           redoMenuLabel |-> t0.redoMenuLabel,
                           keep |-> 0, shift |-> 0 ], FALSE)
           ELSE IF newBead
           THEN Recorded("setUndoTypingParams", d, pushBead(beads, bead, bunch),
                         TRUE)
           ELSE Recorded("setUndoTypingParams", d,
                         [Unpushed(beads, bead) EXCEPT
                              !.beads = [beads EXCEPT ![bead + 1] = bunch]],
                         FALSE)

\* setUndoTypingParams recomputing the labels for "Can't Undo" without
\* clearing the history.
setUndoTypingParamsKeepingBeads(v, undo_type, newText, oldSel, newSel) ==
    /\ pending = NoPending
    /\ Attached(v)
    /\ UNCHANGED pending
    /\ LET p == PosOf(v)
           oldText == body[v]
           d == TypingEdit(Doc, v, newText, newSel)
           diff == TextDiff(oldText, newText)
           newBead == NewBead(beads, bead, granularity, v, undo_type, diff,
                              oldText, newText, oldSel, newSel)
           bunch == IF newBead THEN TypingBunch(p, undo_type, diff, oldSel, newSel)
                    ELSE ExtendedBunch(beads[bead + 1], diff, newSel)
           t == setUndoTypes(beads, bead, max_undo_stack_size, unitTesting)
           t0 == setUndoTypes(<<>>, -1, max_undo_stack_size, unitTesting)
       IN  IF Replaying \/ undo_type = None
           THEN Returned("setUndoTypingParams", d)
           ELSE IF undo_type = "Can't Undo"
           THEN Recorded("setUndoTypingParams", d,
                         [ beads |-> t.beads, bead |-> t.bead,
                           undoMenuLabel |-> t.undoMenuLabel,
                           redoMenuLabel |-> t.redoMenuLabel,
                           keep |-> Len(beads), shift |-> t.shift ], FALSE)
           ELSE IF oldText = newText
           THEN NothingToRecord("setUndoTypingParams",
                         [ beads |-> t.beads, bead |-> t.bead,
                           undoMenuLabel |-> t.undoMenuLabel,
                           redoMenuLabel |-> t.redoMenuLabel,
                           keep |-> Len(beads), shift |-> t.shift ])
           ELSE IF newBead
           THEN Recorded("setUndoTypingParams", d, pushBead(beads, bead, bunch),
                         TRUE)
           ELSE Recorded("setUndoTypingParams", d,
                         [Unpushed(beads, bead) EXCEPT
                              !.beads = [beads EXCEPT ![bead + 1] = bunch]],
                         FALSE)

\* A change of v's body text reported by setUndoTypingParams; the caller
\* then stores newText in the node.
setUndoTypingParams(v, undo_type, newText, oldSel, newSel) ==
    /\ pending = NoPending
    /\ Attached(v)
    /\ UNCHANGED pending
    /\ LET p == PosOf(v)
           oldText == body[v]
           d == TypingEdit(Doc, v, newText, newSel)
           diff == TextDiff(oldText, newText)
           newBead == NewBead(beads, bead, granularity, v, undo_type, diff,
                              oldText, newText, oldSel, newSel)
           bunch == IF newBead THEN TypingBunch(p, undo_type, diff, oldSel, newSel)
                    ELSE ExtendedBunch(beads[bead + 1], diff, newSel)
           t == setUndoTypes(beads, bead, max_undo_stack_size, unitTesting)
           t0 == setUndoTypes(<<>>, -1, max_undo_stack_size, unitTesting)
       IN  IF Replaying \/ undo_type = None
           THEN Returned("setUndoTypingParams", d)
           ELSE IF undo_type = "Can't Undo"
           THEN Recorded("setUndoTypingParams", d,
                         [ beads |-> t0.beads, bead |-> t0.bead,
                           undoMenuLabel |-> t0.undoMenuLabel,
                           redoMenuLabel |-> t0.redoMenuLabel,
                           keep |-> 0, shift |-> 0 ], FALSE)
           ELSE IF oldText = newText
           THEN NothingToRecord("setUndoTypingParams",
                         [ beads |-> t.beads, bead |-> t.bead,
                           undoMenuLabel |-> t.undoMenuLabel,
                           redoMenuLabel |-> t.redoMenuLabel,
                           keep |-> Len(beads), shift |-> t.shift ])
           ELSE IF newBead
           THEN Recorded("setUndoTypingParams", d, pushBead(beads, bead, bunch),
                         TRUE)
           ELSE Recorded("setUndoTypingParams", d,
                         [Unpushed(beads, bead) EXCEPT
                              !.beads = [beads EXCEPT ![bead + 1] = bunch]],
                         FALSE)

\* The state undo()/redo() leave: handler result W, cursor moved to b.
Replayed(op, W, b) ==
    LET t == setUndoTypes(W.beads, b, max_undo_stack_size, unitTesting)
    IN  /\ SetHistory(t)
        /\ SetDoc([DocOf(W) EXCEPT
                      !.changed = TRUE,
                      !.alias = [v \in AllVnodes |-> AliasAfterCut(W.alias[v], t.shift)]])
        /\ lastOp' = [Op(op, TRUE, FALSE, t.shift) EXCEPT !.sels = W.selBy]
        /\ log' = W.log
        /\ UNCHANGED <<flagVars, cfgVars>>

\* undo() when c.currentPosition() is a position (current) or is not
undoAt(current) ==
    /\ pending = NoPending
    /\ UNCHANGED pending
    /\ IF ~canUndo \/ ~HasBead(beads, bead) \/ ~current THEN Returned("undo", Doc)
       ELSE LET bunch == beads[bead + 1]
                W == World(Doc, beads, bunch, <<bead + 1, 0>>)
                W1 == [W EXCEPT !.log = <<[helper |-> bunch.undoHelper, bunch |-> bunch]>>]
            IN  Replayed("undo", Helper(bunch.undoHelper, W1, bead), bead - 1)

\* redo() when c.currentPosition() is a position (current) or is not
redoAt(current) ==
    /\ pending = NoPending
    /\ UNCHANGED pending
    /\ IF ~canRedo \/ ~HasBead(beads, bead + 1) \/ ~current THEN Returned("redo", Doc)
       ELSE LET bunch == beads[bead + 2]
                W == World(Doc, beads, bunch, <<bead + 2, 0>>)
                W1 == [W EXCEPT !.log = <<[helper |-> bunch.redoHelper, bunch |-> bunch]>>]
            IN  Replayed("redo", Helper(bunch.redoHelper, W1, bead), bead + 1)

\* undo() and redo() in an outline that has a current position
undo == undoAt(TRUE)

redo == redoAt(TRUE)

\* beforeChangeTree(p) for the position p of v, a command that changes the
\* tree of p, then afterChangeTree(p, command, bunch). oldText and newText
\* (the text of the body widget) are read by no handler.
afterChangeTree(v, command, e) ==
    /\ pending = NoPending
    /\ Attached(v)
    /\ LET p == PosOf(v)
           W == TreeEdit(World(Doc, beads, NoBunch, <<0, 0>>), p, e)
           d == DocOf(W)
           bunch == [createCommonBunch(p, Doc) EXCEPT
                        !.oldTree = saveTree(Doc, v),
                        !.kind = "tree", !.undoType = command,
                        !.undoHelper = "undoTree", !.redoHelper = "redoTree",
                        !.newSel = d.sel, !.newTree = saveTree(d, v)]
       IN  /\ d # Doc
           /\ IF Replaying THEN Returned("afterChangeTree", d)
              ELSE Recorded("afterChangeTree", d, pushBead(W.beads, bead, bunch), TRUE)
    /\ UNCHANGED pending

\* beforeMoveNode(p), the move of p.v to child n of newParent, then
\* afterMoveNode(p, command, bunch) with p at its new place.
afterMoveNode(v, command, newParent, n) ==
    /\ pending = NoPending
    /\ Attached(v)
    /\ ~InSubtree(newParent, v)
    /\ LET p == PosOf(v)
           W == MoveEdit(World(Doc, beads, NoBunch, <<0, 0>>), p, newParent, n)
           d == DocOf(W)
           bunch == [createCommonBunch(p, Doc) EXCEPT
                        !.oldN = p.n, !.oldParent_v = p.parent,
                        !.kind = "move", !.undoType = command,
                        !.undoHelper = "undoMove", !.redoHelper = "redoMove",
                        !.newChanged = d.changed, !.newDirty = d.dirty[v],
                        !.newMarked = d.marked[v],
                        !.newN = n, !.newParent_v = newParent]
       IN  /\ n <= Len(Deleted(children[p.parent], p.n)) \/ newParent # p.parent
           /\ n <= Len(children[newParent]) \/ newParent = p.parent
           /\ d.children # children
           /\ IF Replaying THEN Returned("afterMoveNode", d)
              ELSE Recorded("afterMoveNode", d, pushBead(W.beads, bead, bunch), TRUE)
    /\ UNCHANGED pending

\* A clone command: beforeCloneNode(p) for the position p of v, a clone of
\* p linked as child n of newParent, then afterCloneNode(clone, command,
\* bunch).
afterCloneNode(p, command, newParent, n) ==
    /\ pending = NoPending
    /\ LET W0 == World(Doc, beads, NoBunch, <<0, 0>>)
           W == [SetChildren(W0, newParent, Inserted(children[newParent], n, p.v))
                    EXCEPT !.changed = TRUE]
           d == DocOf(W)
           clone == [v |-> p.v, parent |-> newParent, n |-> n]
           bunch == [createCommonBunch(p, Doc) EXCEPT
                        !.kind = "clone", !.undoType = command,
                        !.undoHelper = "undoCloneNode",
                        !.redoHelper = "redoCloneNode",
                        !.newBack = Back(d.children, clone),
                        !.newParent = ParentPos(d.children, clone),
                        !.newP = clone,
                        !.newChanged = d.changed, !.newDirty = d.dirty[p.v],
                        !.newMarked = d.marked[p.v]]
       IN  IF Replaying THEN Returned("afterCloneNode", d)
           ELSE Recorded("afterCloneNode", d, pushBead(W.beads, bead, bunch), TRUE)
    /\ UNCHANGED pending

\* c.deleteOutline() outside a replay, position p selected and newNode the
\* position selected afterwards: beforeDeleteNode(p), p unlinked, then
\* afterDeleteNode(newNode, command, bunch).
afterDeleteNode(p, command) ==
    /\ pending = NoPending
    /\ IsChildAt(Doc, p.parent, p.n, p.v)
    /\ ~((p.parent = Root /\ p.n = 0) /\ NextSib(children, p) = NoPos)
    /\ LET W0 == World(Doc, beads, NoBunch, <<0, 0>>)
           W == [SetChildren(W0, p.parent, Deleted(children[p.parent], p.n))
                    EXCEPT !.changed = TRUE]
           d == DocOf(W)
           newNode == IF Back(children, p) # NoPos THEN Back(children, p)
                      ELSE IF ParentPos(children, p) # NoPos
                      THEN ParentPos(children, p)
                      ELSE [NextSib(children, p) EXCEPT !.n = p.n]
           bunch == [createCommonBunch(p, Doc) EXCEPT
                        !.oldBack = Back(children, p),
                        !.oldParent = ParentPos(children, p),
                        !.kind = "delete", !.undoType = command,
                        !.undoHelper = "undoDeleteNode",
                        !.redoHelper = "redoDeleteNode",
                        !.newP = newNode,
                        !.newChanged = d.changed,
                        !.newDirty = d.dirty[newNode.v],
                        !.newMarked = d.marked[newNode.v]]
       IN  IF Replaying THEN Returned("afterDeleteNode", d)
           ELSE Recorded("afterDeleteNode", d, pushBead(W.beads, bead, bunch), TRUE)
    /\ UNCHANGED pending

\* afterClearRecentFiles(bunch), with the bunch of beforeClearRecentFiles for
\* the current position; the list of recent files is not part of the outline.
afterClearRecentFiles(v) ==
    /\ pending = NoPending
    /\ Attached(v)
    /\ LET bunch == [createCommonBunch(PosOf(v), Doc) EXCEPT
                        !.undoType = "Clear Recent Files",
                        !.undoHelper = "undoClearRecentFiles",
                        !.redoHelper = "redoClearRecentFiles"]
       IN  Recorded("afterClearRecentFiles", Doc, pushBead(beads, bead, bunch), TRUE)
    /\ UNCHANGED pending

\* undo() or redo() up to the end of its try block: the flag is set and the
\* handler of bunch (bead i of the stack) has run from W; a handler that
\* raises has made none or all of its changes.
Entered(op, i, name, raises) ==
    LET bunch == beads[i]
        W == World(Doc, beads, bunch, <<i, 0>>)
        W1 == [W EXCEPT !.log = <<[helper |-> name, bunch |-> bunch]>>]
        W2 == Helper(name, W1, bead)
    IN  \E R \in (IF raises THEN {W1, W2} ELSE {W2}) :
            /\ beads' = R.beads
            /\ SetDoc(DocOf(R))
            /\ log' = R.log
            /\ lastOp' = [Op(op, TRUE, FALSE, 0) EXCEPT !.sels = R.selBy]
            /\ UNCHANGED <<bead, undoMenuLabel, redoMenuLabel, cfgVars>>

\* The finally clause of undo() and redo(): the cursor moves to b.
Finally(op, b) ==
    LET t == setUndoTypes(beads, b, max_undo_stack_size, unitTesting)
    IN  /\ SetHistory(t)
        /\ SetDoc([Doc EXCEPT
                      !.changed = TRUE,
                      !.alias = [v \in AllVnodes |-> AliasAfterCut(alias[v], t.shift)]])
        /\ lastOp' = [Op(op, TRUE, FALSE, t.shift) EXCEPT !.sels = lastOp.sels]
        /\ UNCHANGED <<log, cfgVars, pending>>

\* undo() as far as the end of its try block.
undoEnter(raises) ==
    /\ pending = NoPending
    /\ UNCHANGED pending
    /\ IF ~canUndo \/ ~HasBead(beads, bead) THEN Returned("undo", Doc)
       ELSE /\ undoing' = TRUE
            /\ UNCHANGED redoing
            /\ Entered("undo", bead + 1, beads[bead + 1].undoHelper, raises)

\* A finally clause of undo() that leaves the cursor where it is.
undoFinallyWithoutMove ==
    /\ undoing
    /\ undoing' = FALSE
    /\ UNCHANGED redoing
    /\ Finally("undo", bead)

undoFinally ==
    /\ undoing
    /\ undoing' = FALSE
    /\ UNCHANGED redoing
    /\ Finally("undo", bead - 1)

\* redo() as far as the end of its try block.
redoEnter(raises) ==
    /\ pending = NoPending
    /\ UNCHANGED pending
    /\ IF ~canRedo \/ ~HasBead(beads, bead + 1) THEN Returned("redo", Doc)
       ELSE /\ redoing' = TRUE
            /\ UNCHANGED undoing
            /\ Entered("redo", bead + 2, beads[bead + 2].redoHelper, raises)

redoFinally ==
    /\ redoing
    /\ redoing' = FALSE
    /\ UNCHANGED undoing
    /\ Finally("redo", bead + 1)

-----------------------------------------------------------------------------
(* The callers of the undoer *)

\* A new outline: three top-level nodes, node x with body text t.
DocWith(t) ==
    /\ body = [v \in AllVnodes |-> IF v = "x" THEN t ELSE <<>>]
    /\ head = [v \in AllVnodes |-> "h"]
    /\ marked = [v \in AllVnodes |-> FALSE]
    /\ dirty = [v \in AllVnodes |-> TRUE]
    /\ children = [v \in AllVnodes |-> IF v = Root THEN <<"x", "y", "z">> ELSE <<>>]
    /\ alias = [v \in AllVnodes |-> NoAlias]
    /\ changed = TRUE
    /\ sel = EndSel(t)

InitDoc == DocWith(<<>>)

\* The undoer after __init__ and clearUndoState.
InitUndoer ==
    /\ beads = <<>>
    /\ bead = -1
    /\ undoMenuLabel = "Can't Undo"
    /\ redoMenuLabel = "Can't Redo"
    /\ undoing = FALSE
    /\ redoing = FALSE
    /\ pending = NoPending
    /\ groups = 0
    /\ steps = [rec |-> 0, rep |-> 0]
    /\ pc = <<>>
    /\ lastOp = Op("clearUndoState", TRUE, FALSE, 0)
    /\ log = <<>>

\* What a snapshot keeps of a state.
Snapshot ==
    [ body |-> body, head |-> head, children |-> children, marked |-> marked,
      beads |-> beads, bead |-> bead, canUndo |-> canUndo, canRedo |-> canRedo ]

\* A caller may call one more recording entry.
MayRecord == steps.rec < MaxOps

\* A caller may call undo() or redo() once more.
MayReplay == steps.rep < MaxReplays

Counted == steps' = [steps EXCEPT !.rec = @ + 1]

Replay == steps' = [steps EXCEPT !.rep = @ + 1]

\* The nodes the commands work on.
EditNodes == {"x", "y"}
TypingNodes == {"x"}
SortNodes == {"x"}
MoveNodes == {"y"}

ChangeNode ==
    /\ \E v \in EditNodes : beforeChangeNodeContents(v, NoText, None)
    /\ saved' = <<>>
    /\ UNCHANGED <<groups, steps>>

ChangedNode ==
    /\ \E b \in Bodies : afterChangeNodeContents("Change", b, head[pending.bunch.p.v])
    /\ Counted
    /\ saved' = <<>>
    /\ UNCHANGED groups

OpenGroup ==
    /\ beforeChangeGroup("x", "Group")
    /\ groups' = groups + 1
    /\ Counted
    /\ saved' = <<>>

\* afterChangeGroup ends a command that called beforeChangeGroup.
CloseGroup ==
    /\ groups > 0
    /\ afterChangeGroup("Group")
    /\ groups' = groups - 1
    /\ saved' = <<>>
    /\ UNCHANGED steps

SortBegin ==
    /\ \E v \in SortNodes :
           Attached(v) /\ beforeSort(v, "Sort", Reverse(children[PosOf(v).parent]))
    /\ Counted
    /\ saved' = <<>>
    /\ UNCHANGED groups

SortEnd ==
    /\ afterSort
    /\ saved' = <<>>
    /\ UNCHANGED <<groups, steps>>

Promote ==
    /\ \E v \in MoveNodes : afterPromote(v)
    /\ Counted
    /\ saved' = <<>>
    /\ UNCHANGED groups

\* c.demote: nothing for a node without a next sibling.
Demote ==
    /\ \E v \in MoveNodes :
           /\ Attached(v)
           /\ NextSib(children, PosOf(v)) # NoPos
           /\ afterDemote(v)
    /\ Counted
    /\ saved' = <<>>
    /\ UNCHANGED groups

Typing ==
    /\ \E v \in TypingNodes, t \in Bodies :
           setUndoTypingParams(v, "Typing", t, EndSel(body[v]), EndSel(t))
    /\ Counted
    /\ saved' = <<>>
    /\ UNCHANGED groups

\* The Undo command, between two commands; saved keeps the state it found.
Undo ==
    /\ groups = 0
    /\ undo
    /\ saved' = IF lastOp'.ran THEN <<Snapshot>> ELSE <<>>
    /\ Replay
    /\ UNCHANGED groups

\* The Redo command; saved survives it only right after an undo().
Redo ==
    /\ groups = 0
    /\ redo
    /\ saved' = IF lastOp.op = "undo" THEN saved ELSE <<>>
    /\ Replay
    /\ UNCHANGED groups

Clear ==
    /\ groups = 0
    /\ clearUndoState
    /\ Counted
    /\ saved' = <<>>
    /\ UNCHANGED groups

-----------------------------------------------------------------------------
(* The specification: any commands, undo and redo *)

Init ==
    /\ InitDoc
    /\ InitUndoer
    /\ saved = <<>>
    /\ granularity = "line"
    /\ max_undo_stack_size \in {0, StackLimit}
    /\ unitTesting = FALSE

Next ==
    \/ MayRecord /\ ChangeNode /\ UNCHANGED pc
    \/ ChangedNode /\ UNCHANGED pc
    \/ MayRecord /\ OpenGroup /\ UNCHANGED pc
    \/ CloseGroup /\ UNCHANGED pc
    \/ MayRecord /\ SortBegin /\ UNCHANGED pc
    \/ SortEnd /\ UNCHANGED pc
    \/ MayRecord /\ Promote /\ UNCHANGED pc
    \/ MayRecord /\ Demote /\ UNCHANGED pc
    \/ MayRecord /\ Typing /\ UNCHANGED pc
    \/ MayReplay /\ Undo /\ UNCHANGED pc
    \/ MayReplay /\ Redo /\ UNCHANGED pc
    \/ MayRecord /\ Clear /\ UNCHANGED pc

Spec == Init /\ [][Next]_vars

-----------------------------------------------------------------------------
(* The specification of typing: text changes of node x, then undo() *)

MaxLen == 2        \* the length of the body texts typed

Alphabet == {"a", "\n"}

Texts == UNION {[1..n -> Alphabet] : n \in 0..MaxLen}

Granularities == {"char", "line", "word", "node"}

InitTyping ==
    /\ \E t \in Texts : DocWith(t)
    /\ InitUndoer
    /\ saved = <<Snapshot>>
    /\ granularity \in Granularities
    /\ max_undo_stack_size = 0
    /\ unitTesting = FALSE

\* The body widget reports a change of x's text, until the first undo().
TypingEvent ==
    /\ lastOp.op # "undo"
    /\ MayRecord
    /\ \E t \in Texts :
           /\ t # body["x"]
           /\ setUndoTypingParams("x", "Typing", t, sel, EndSel(t))
    /\ Counted
    /\ UNCHANGED <<groups, pc, saved>>

UndoTyping ==
    /\ MayReplay
    /\ undo
    /\ Replay
    /\ UNCHANGED <<groups, pc, saved>>

NextTyping == TypingEvent \/ UndoTyping

SpecTyping == InitTyping /\ [][NextTyping]_vars

-----------------------------------------------------------------------------
(* The specification of coalescing: text changes of nodes x and y under    *)
(* two labels, and undo(), at the granularities that do not look at the     *)
(* text; pc lists the events                                                *)

TypedNodes == {"x", "y"}

Labels == {"Typing", "Paste"}

\* The texts of one line.
LineTexts == {t \in Texts : "\n" \notin Range(t)}

InitCoalesce ==
    /\ InitDoc
    /\ InitUndoer
    /\ saved = <<>>
    /\ granularity \in {"char", "node"}
    /\ max_undo_stack_size = 0
    /\ unitTesting = FALSE

\* The body widget reports a change of the text of v under label undo_type.
CoalesceEvent ==
    /\ MayRecord
    /\ \E v \in TypedNodes, undo_type \in Labels, t \in LineTexts :
           /\ t # body[v]
           /\ setUndoTypingParams(v, undo_type, t, EndSel(body[v]), EndSel(t))
           /\ pc' = Append(pc, [v |-> v, undo_type |-> undo_type])
    /\ Counted
    /\ UNCHANGED <<groups, saved>>

CoalesceUndo ==
    /\ MayReplay
    /\ undo
    /\ Replay
    /\ UNCHANGED <<groups, pc, saved>>

NextCoalesce == CoalesceEvent \/ CoalesceUndo

SpecCoalesce == InitCoalesce /\ [][NextCoalesce]_vars

-----------------------------------------------------------------------------
(* The specification of typing words: characters typed one at a time at    *)
(* the end of the empty body of x at granularity 'word', then undo() while  *)
(* it is enabled, then redo() while it is enabled                           *)

MaxTyped == 6      \* the characters typed

TheWord == <<"h", "e", "l", "l", "o">>

Hello == TheWord \o <<" ">>

\* The letters of t.
Letters(t) == SelectSeq(t, LAMBDA ch : ~isspace(ch))

\* The user types the letters of the word, over and over, and spaces.
NextLetter(t) == TheWord[(Len(Letters(t)) % Len(TheWord)) + 1]

InitWord ==
    /\ InitDoc
    /\ InitUndoer
    /\ saved = <<>>
    /\ granularity = "word"
    /\ max_undo_stack_size = 0
    /\ unitTesting = FALSE

WordType ==
    /\ pc = <<>>
    /\ steps.rec < MaxTyped
    /\ \E ch \in {NextLetter(body["x"]), " "} :
           LET t == Append(body["x"], ch)
           IN  setUndoTypingParams("x", "Typing", t, EndSel(body["x"]), EndSel(t))
    /\ Counted
    /\ UNCHANGED <<groups, pc, saved>>

\* Undo, while the menu offers it; saved keeps what the typing left.
WordUndo ==
    /\ \A i \in 1..Len(pc) : pc[i] = "undo"
    /\ canUndo
    /\ undo
    /\ pc' = Append(pc, "undo")
    /\ saved' = IF pc = <<>> THEN <<Snapshot>> ELSE saved
    /\ UNCHANGED <<groups, steps>>

\* Redo, while the menu offers it.
WordRedo ==
    /\ pc # <<>>
    /\ canRedo
    /\ redo
    /\ pc' = Append(pc, "redo")
    /\ UNCHANGED <<groups, steps, saved>>

NextWord == WordType \/ WordUndo \/ WordRedo

SpecWord == InitWord /\ [][NextWord]_vars

-----------------------------------------------------------------------------
(* The specification of a word typed after a word: the body of x is "hi",  *)
(* the history is empty, characters are typed one at a time at the end of   *)
(* the body at granularity 'word', then undo() while it is enabled, then    *)
(* redo() while it is enabled                                               *)

S2Typed == 6       \* the characters typed after "hi"

Hi == <<"h", "i">>

TheSecondWord == <<"w", "o", "r", "l", "d">>

HiWorld == Hi \o <<" ">> \o TheSecondWord

\* The user types the letters of the second word, over and over, and spaces.
NextS2Letter(t) ==
    TheSecondWord[((Len(Letters(t)) - Len(Hi)) % Len(TheSecondWord)) + 1]

InitS2 ==
    /\ DocWith(Hi)
    /\ InitUndoer
    /\ saved = <<>>
    /\ granularity = "word"
    /\ max_undo_stack_size = 0
    /\ unitTesting = FALSE

S2Type ==
    /\ pc = <<>>
    /\ steps.rec < S2Typed
    /\ \E ch \in {NextS2Letter(body["x"]), " "} :
           LET t == Append(body["x"], ch)
           IN  setUndoTypingParams("x", "Typing", t, EndSel(body["x"]), EndSel(t))
    /\ Counted
    /\ UNCHANGED <<groups, pc, saved>>

NextS2 == S2Type \/ WordUndo \/ WordRedo

SpecS2 == InitS2 /\ [][NextS2]_vars

-----------------------------------------------------------------------------
(* The specification of a clone that survives: a node is cloned under a    *)
(* new parent, its original appearance is deleted, then undo() and redo()   *)
(* while they are enabled; pc lists the steps, saved the state before the   *)
(* clone, before the deletion and before the first replay                   *)

S5Replays == 4     \* the calls of undo() and redo()

Outline(r, xs, ys, zs) ==
    [v \in AllVnodes |-> CASE v = Root -> r [] v = "x" -> xs
                           [] v = "y" -> ys [] OTHER -> zs]

S5Outlines ==
    { Outline(<<"x", "y", "z">>, <<>>, <<>>, <<>>),
      Outline(<<"x", "y">>, <<>>, <<"z">>, <<>>),
      Outline(<<"y", "z">>, <<>>, <<"x">>, <<>>),
      Outline(<<"x", "z">>, <<"y">>, <<>>, <<>>),
      Outline(<<"x">>, <<"y", "z">>, <<>>, <<>>) }

InitS5 ==
    /\ body = [v \in AllVnodes |-> IF v = Root THEN <<>> ELSE <<"a">>]
    /\ head = [v \in AllVnodes |-> "h"]
    /\ marked = [v \in AllVnodes |-> FALSE]
    /\ dirty = [v \in AllVnodes |-> TRUE]
    /\ children \in S5Outlines
    /\ alias = [v \in AllVnodes |-> NoAlias]
    /\ changed = TRUE
    /\ sel = NoSel
    /\ InitUndoer
    /\ saved = <<>>
    /\ granularity = "line"
    /\ max_undo_stack_size = 0
    /\ unitTesting = FALSE

S5Clone ==
    /\ pc = <<>>
    /\ \E v \in Vnodes, newParent \in AllVnodes :
       \E n \in 0..Len(children[newParent]) :
           /\ newParent # PosOf(v).parent
           /\ ~InSubtree(newParent, v)
           /\ afterCloneNode(PosOf(v), "Clone Node", newParent, n)
    /\ pc' = <<"clone">>
    /\ saved' = <<Snapshot>>
    /\ Counted
    /\ UNCHANGED groups

\* The original appearance of the cloned node is deleted.
S5Delete ==
    /\ pc = <<"clone">>
    /\ afterDeleteNode(beads[1].p, "Delete Node")
    /\ pc' = Append(pc, "delete")
    /\ saved' = Append(saved, Snapshot)
    /\ Counted
    /\ UNCHANGED groups

S5Undo ==
    /\ pc # <<>>
    /\ Len(pc) < 2 + S5Replays
    /\ canUndo
    /\ undo
    /\ pc' = Append(pc, "undo")
    /\ saved' = IF Len(saved) = 2 THEN Append(saved, Snapshot) ELSE saved
    /\ UNCHANGED <<groups, steps>>

S5Redo ==
    /\ Len(pc) < 2 + S5Replays
    /\ canRedo
    /\ redo
    /\ pc' = Append(pc, "redo")
    /\ UNCHANGED <<groups, steps, saved>>

NextS5 == S5Clone \/ S5Delete \/ S5Undo \/ S5Redo

SpecS5 == InitS5 /\ [][NextS5]_vars

-----------------------------------------------------------------------------
(* The specification of a nullUndoer: the calls of its interface, in any   *)
(* order; pc lists the calls and whether they raised. nullUndoer.__init__   *)
(* calls undoer.__init__ only and clearUndoState is overridden by pass, so  *)
(* the ivars beads and bead are never set: beads = <<>> and bead = -1       *)
(* stand for the two missing attributes                                     *)

NullCalls == 2     \* the calls made

\* The ivars undoer.__init__ sets.
InitIvars ==
    { "c", "debug", "debug_print", "granularity", "max_undo_stack_size",
      "new_mem", "old_mem", "undoType", "redoMenuLabel", "undoMenuLabel",
      "realRedoMenuLabel", "realUndoMenuLabel", "undoing", "redoing",
      "optionalIvars", "afterTree", "beforeTree", "dirtyVnodeList", "kind",
      "newBack", "newBody", "newHead", "newMarked", "newN", "newP",
      "newParent", "newRecentFiles", "newTree", "oldBack", "oldBody",
      "oldHead", "oldMarked", "oldN", "oldParent", "oldRecentFiles",
      "oldTree", "pasteAsClone" }

\* The methods class nullUndoer overrides by pass.
NullOverridden ==
    { "clearUndoState", "enableMenuItems", "setUndoTypingParams", "setUndoTypes",
      "beforeChangeNodeContents", "beforeChangeTree", "beforeChangeGroup",
      "beforeClearRecentFiles", "beforeCloneNode", "beforeDeleteNode",
      "beforeInsertNode", "beforeMark", "beforeMoveNode",
      "afterChangeNodeContents", "afterChangeTree", "afterChangeGroup",
      "afterClearRecentFiles", "afterCloneNode", "afterDehoist", "afterHoist",
      "afterDeleteNode", "afterInsertNode", "afterMark", "afterMoveNode" }

\* nullUndoer.canRedo and nullUndoer.canUndo
nullCanRedo == FALSE

nullCanUndo == FALSE

InitNull ==
    /\ InitDoc
    /\ InitUndoer
    /\ saved = <<>>
    /\ granularity = "line"
    /\ max_undo_stack_size = 0
    /\ unitTesting = FALSE

\* A call of op has returned or raised and left every ivar as it was.
NullCalled(op, raises) ==
    /\ Len(pc) < NullCalls
    /\ pc' = Append(pc, [op |-> op, raises |-> raises])
    /\ lastOp' = Op(op, ~raises, FALSE, 0)
    /\ UNCHANGED <<docVars, histVars, flagVars, cfgVars, pending, groups, steps,
                   log, saved>>

\* An inherited entry that pushes bunch with `u.bead += 1;
\* u.beads[u.bead:] = [bunch]; u.setUndoTypes()`: the read of u.bead raises
\* AttributeError when the ivar is not set; setUndoTypes is overridden.
NullPush(op, bunch) ==
    IF "bead" \notin InitIvars THEN NullCalled(op, TRUE)
    ELSE /\ Len(pc) < NullCalls
         /\ pc' = Append(pc, [op |-> op, raises |-> FALSE])
         /\ bead' = bead + 1
         /\ beads' = Take(beads, bead + 1) \o <<bunch>>
         /\ lastOp' = Op(op, TRUE, TRUE, 0)
         /\ UNCHANGED <<docVars, undoMenuLabel, redoMenuLabel, flagVars, cfgVars,
                        pending, groups, steps, log, saved>>

NullPass == \E op \in NullOverridden : NullCalled(op, FALSE)

NullBeforeSort ==
    \E v \in Vnodes :
        NullPush("beforeSort",
                 [createCommonBunch(PosOf(v), Doc) EXCEPT
                     !.kind = "sort", !.undoType = "Sort",
                     !.undoHelper = "undoSort", !.redoHelper = "redoSort"])

\* afterSort: the replay guard, an attribute of the bunch, setUndoTypes().
NullAfterSort == NullCalled("afterSort", FALSE)

NullAfterPromote ==
    \E v \in Vnodes :
        NullPush("afterPromote",
                 [createCommonBunch(PosOf(v), Doc) EXCEPT
                     !.kind = "promote", !.undoType = "Promote",
                     !.undoHelper = "undoPromote", !.redoHelper = "redoPromote"])

NullAfterDemote ==
    \E v \in Vnodes :
        NullPush("afterDemote",
                 [createCommonBunch(PosOf(v), Doc) EXCEPT
                     !.kind = "demote", !.undoType = "Demote",
                     !.undoHelper = "undoDemote", !.redoHelper = "redoDemote"])

\* undo() and redo() return at `if not u.canUndo()`, `if not u.canRedo()`.
NullUndo == ~nullCanUndo /\ NullCalled("undo", FALSE)

NullRedo == ~nullCanRedo /\ NullCalled("redo", FALSE)

NextNull ==
    \/ NullPass
    \/ NullBeforeSort
    \/ NullAfterSort
    \/ NullAfterPromote
    \/ NullAfterDemote
    \/ NullUndo
    \/ NullRedo

SpecNull == InitNull /\ [][NextNull]_vars

-----------------------------------------------------------------------------
(* The specification of one text change: node x holds any text, one typing *)
(* event gives it any other text, then undo() and redo() in turn; saved     *)
(* keeps the state before the event and the state before the first undo()   *)

MaxDiffLen == 3    \* the length of the texts
DiffReplays == 2   \* the calls of undo() and redo()

DiffAlphabet == {"a", "b", "\n"}

DiffTexts == UNION {[1..n -> DiffAlphabet] : n \in 0..MaxDiffLen}

InitDiff ==
    /\ \E t \in DiffTexts : DocWith(t)
    /\ InitUndoer
    /\ saved = <<>>
    /\ granularity = "line"
    /\ max_undo_stack_size = 0
    /\ unitTesting = FALSE

DiffEvent ==
    /\ pc = <<>>
    /\ \E t \in DiffTexts :
           /\ t # body["x"]
           /\ setUndoTypingParams("x", "Typing", t, sel, EndSel(t))
    /\ pc' = <<"typed">>
    /\ saved' = <<Snapshot>>
    /\ Counted
    /\ UNCHANGED groups

DiffUndo ==
    /\ Len(pc) < 1 + DiffReplays
    /\ canUndo
    /\ undo
    /\ pc' = Append(pc, "undo")
    /\ saved' = IF Len(saved) = 1 THEN Append(saved, Snapshot) ELSE saved
    /\ UNCHANGED <<groups, steps>>

DiffRedo ==
    /\ Len(pc) < 1 + DiffReplays
    /\ canRedo
    /\ redo
    /\ pc' = Append(pc, "redo")
    /\ UNCHANGED <<groups, steps, saved>>

NextDiff == DiffEvent \/ DiffUndo \/ DiffRedo

SpecDiff == InitDiff /\ [][NextDiff]_vars

-----------------------------------------------------------------------------
(* The specification of coalescing by lines: text changes of nodes x and y *)
(* under two labels at granularity 'line', and undo(); pc lists the events  *)

LineEvents == 2    \* the typing events

InitLine ==
    /\ InitDoc
    /\ InitUndoer
    /\ saved = <<>>
    /\ granularity = "line"
    /\ max_undo_stack_size = 0
    /\ unitTesting = FALSE

\* The body widget reports a change of the text of v under label undo_type.
LineEvent ==
    /\ Len(pc) < LineEvents
    /\ \E v \in TypedNodes, undo_type \in Labels, t \in Texts :
           /\ t # body[v]
           /\ setUndoTypingParams(v, undo_type, t, EndSel(body[v]), EndSel(t))
           /\ pc' = Append(pc, [v |-> v, undo_type |-> undo_type])
    /\ UNCHANGED <<groups, steps, saved>>

LineUndo ==
    /\ MayReplay
    /\ undo
    /\ Replay
    /\ UNCHANGED <<groups, pc, saved>>

NextLine == LineEvent \/ LineUndo

SpecLine == InitLine /\ [][NextLine]_vars

-----------------------------------------------------------------------------
(* The specification of one outline command: a move, a promote or a demote *)
(* of any node of a small outline, then undo() and redo() in turn; pc lists *)
(* the steps, saved keeps the state before the command and the state before *)
(* the first undo()                                                         *)

OutlineReplays == 3   \* the calls of undo() and redo()

OutlineMove ==
    /\ pc = <<>>
    /\ \E v \in Vnodes, newParent \in AllVnodes, n \in 0..2 :
           afterMoveNode(v, "Move", newParent, n)
    /\ pc' = <<"move">>
    /\ saved' = <<Snapshot>>
    /\ Counted
    /\ UNCHANGED groups

OutlinePromote ==
    /\ pc = <<>>
    /\ \E v \in Vnodes : afterPromote(v)
    /\ pc' = <<"promote">>
    /\ saved' = <<Snapshot>>
    /\ Counted
    /\ UNCHANGED groups

\* A demote command that also records the demote of a node that has no
\* next sibling, with an empty list of following siblings.
OutlineDemote ==
    /\ pc = <<>>
    /\ \E v \in Vnodes : afterDemote(v)
    /\ pc' = <<"demote">>
    /\ saved' = <<Snapshot>>
    /\ Counted
    /\ UNCHANGED groups

OutlineUndo ==
    /\ pc # <<>>
    /\ Len(pc) < 1 + OutlineReplays
    /\ canUndo
    /\ undo
    /\ pc' = Append(pc, "undo")
    /\ saved' = IF Len(saved) = 1 THEN Append(saved, Snapshot) ELSE saved
    /\ UNCHANGED <<groups, steps>>

OutlineRedo ==
    /\ Len(pc) < 1 + OutlineReplays
    /\ canRedo
    /\ redo
    /\ pc' = Append(pc, "redo")
    /\ UNCHANGED <<groups, steps, saved>>

NextOutline ==
    OutlineMove \/ OutlinePromote \/ OutlineDemote \/ OutlineUndo \/ OutlineRedo

SpecOutline == InitS5 /\ [][NextOutline]_vars

-----------------------------------------------------------------------------
(* The specification of one change of a node's contents: a command that     *)
(* may write to the node before it calls beforeChangeNodeContents, with the *)
(* values it found as oldBody and oldHead, then afterChangeNodeContents,    *)
(* undo() and redo(); pc lists the steps, saved keeps the state the         *)
(* command found and the state afterChangeNodeContents saw                  *)

NodeReplays == 3      \* the calls of undo() and redo()

Heads == {"", "h"}      \* headlines

InitNode ==
    /\ \E t \in Bodies, h \in Heads :
           /\ body = [v \in AllVnodes |-> IF v = "x" THEN t ELSE <<>>]
           /\ head = [v \in AllVnodes |-> IF v = "x" THEN h ELSE "h"]
           /\ sel = EndSel(t)
    /\ marked = [v \in AllVnodes |-> FALSE]
    /\ dirty = [v \in AllVnodes |-> FALSE]
    /\ children = [v \in AllVnodes |-> IF v = Root THEN <<"x", "y", "z">> ELSE <<>>]
    /\ alias = [v \in AllVnodes |-> NoAlias]
    /\ changed = FALSE
    /\ InitUndoer
    /\ saved = <<>>
    /\ granularity = "line"
    /\ max_undo_stack_size = 0
    /\ unitTesting = FALSE

\* The command writes to node x before it calls the undoer.
NodePreEdit ==
    /\ pc = <<>>
    /\ \E b \in Bodies, h \in Heads :
           /\ b # body["x"] \/ h # head["x"]
           /\ SetDoc(NodeEdit(Doc, "x", b, h))
    /\ pc' = <<"edited">>
    /\ saved' = <<Snapshot>>
    /\ UNCHANGED <<histVars, flagVars, cfgVars, pending, groups, steps, lastOp, log>>

\* beforeChangeNodeContents(p) for a node not yet changed, or
\* beforeChangeNodeContents(p, oldBody, oldHead) with the values the
\* command found before it changed the node.
NodeBefore ==
    /\ \/ /\ pc = <<>>
          /\ beforeChangeNodeContents("x", NoText, None)
          /\ saved' = <<Snapshot>>
       \/ /\ pc = <<"edited">>
          /\ beforeChangeNodeContents("x", saved[1].body["x"], saved[1].head["x"])
          /\ saved' = saved
    /\ pc' = Append(pc, "before")
    /\ UNCHANGED <<groups, steps>>

\* The command marks or unmarks the node between the two calls.
NodeMark ==
    /\ pending.tag = "node"
    /\ pc[Len(pc)] = "before"
    /\ marked' = [marked EXCEPT !["x"] = ~@]
    /\ pc' = Append(pc, "marked")
    /\ UNCHANGED <<body, head, dirty, children, alias, changed, sel>>
    /\ UNCHANGED <<histVars, flagVars, cfgVars, pending, groups, steps, lastOp, log, saved>>

\* The command writes the rest of its change, then afterChangeNodeContents.
NodeAfter ==
    /\ pending.tag = "node"
    /\ \E b \in Bodies, h \in Heads :
           afterChangeNodeContents("Change", b, h)
    /\ pc' = Append(pc, "after")
    /\ saved' = Append(saved, Snapshot')
    /\ Counted
    /\ UNCHANGED groups

NodeUndo ==
    /\ steps.rep < NodeReplays
    /\ canUndo
    /\ undo
    /\ pc' = Append(pc, "undo")
    /\ Replay
    /\ UNCHANGED <<groups, saved>>

NodeRedo ==
    /\ steps.rep < NodeReplays
    /\ canRedo
    /\ redo
    /\ pc' = Append(pc, "redo")
    /\ Replay
    /\ UNCHANGED <<groups, saved>>

NextNode ==
    NodePreEdit \/ NodeBefore \/ NodeMark \/ NodeAfter \/ NodeUndo \/ NodeRedo

SpecNode == InitNode /\ [][NextNode]_vars

-----------------------------------------------------------------------------
(* The specification of a grouped command: some history, then one group   *)
(* of three node changes, then undo() and redo()                           *)

MaxPrefix == 1     \* the recording entries called before the group

\* pc is <<>> before the group, then "open", the nodes changed so far,
\* "closed", "undone" and "redone".
S4NotBegun == pc = <<>>

MayPrefix == S4NotBegun /\ steps.rec < MaxPrefix

S4Open ==
    /\ S4NotBegun
    /\ beforeChangeGroup("x", "Group")
    /\ groups' = groups + 1
    /\ pc' = <<"open">>
    /\ saved' = <<Snapshot>>
    /\ UNCHANGED steps

\* beforeChangeNodeContents on a node the group has not changed yet.
S4Before ==
    /\ Len(pc) \in 1..3
    /\ \E v \in Vnodes \ Range(pc) :
           /\ beforeChangeNodeContents(v, NoText, None)
           /\ pc' = Append(pc, v)
    /\ UNCHANGED <<groups, steps, saved>>

S4After ==
    /\ ~S4NotBegun
    /\ \E b \in Bodies : afterChangeNodeContents("Change", b, head[pending.bunch.p.v])
    /\ UNCHANGED <<groups, steps, saved, pc>>

S4Close ==
    /\ Len(pc) = 4
    /\ afterChangeGroup("Group")
    /\ groups' = groups - 1
    /\ pc' = Append(pc, "closed")
    /\ saved' = Append(saved, Snapshot')
    /\ UNCHANGED steps

S4Undo ==
    /\ Len(pc) = 5
    /\ undo
    /\ pc' = Append(pc, "undone")
    /\ UNCHANGED <<groups, steps, saved>>

S4Redo ==
    /\ Len(pc) = 6
    /\ redo
    /\ pc' = Append(pc, "redone")
    /\ UNCHANGED <<groups, steps, saved>>

InitS4 == Init

NextS4 ==
    \/ MayPrefix /\ ChangeNode /\ UNCHANGED pc
    \/ S4NotBegun /\ ChangedNode /\ UNCHANGED pc
    \/ MayPrefix /\ Typing /\ UNCHANGED pc
    \/ S4NotBegun /\ MayReplay /\ Undo /\ UNCHANGED pc
    \/ S4NotBegun /\ MayReplay /\ Redo /\ UNCHANGED pc
    \/ S4Open
    \/ S4Before
    \/ S4After
    \/ S4Close
    \/ S4Undo
    \/ S4Redo

SpecS4 == InitS4 /\ [][NextS4]_vars

-----------------------------------------------------------------------------
(* The specification of a bounded stack: a limit of S6Limit beads, S6Pushes *)
(* pushes outside any group, then undo() until it has nothing to undo       *)

S6Limit == 3       \* max_undo_stack_size
S6Pushes == 5      \* the pushes made before the first undo()

S6MayPush == steps.rec < S6Pushes

\* undo() is called once all the pushes are made, once more than the limit.
S6Undo ==
    /\ steps.rec = S6Pushes
    /\ pending = NoPending
    /\ Len(pc) <= S6Limit
    /\ Undo
    /\ pc' = Append(pc, "undo")

InitS6 ==
    /\ InitDoc
    /\ InitUndoer
    /\ saved = <<>>
    /\ granularity = "line"
    /\ max_undo_stack_size = S6Limit
    /\ unitTesting = FALSE

NextS6 ==
    \/ S6MayPush /\ ChangeNode /\ UNCHANGED pc
    \/ ChangedNode /\ UNCHANGED pc
    \/ S6MayPush /\ SortBegin /\ UNCHANGED pc
    \/ SortEnd /\ UNCHANGED pc
    \/ S6MayPush /\ Promote /\ UNCHANGED pc
    \/ S6MayPush /\ Demote /\ UNCHANGED pc
    \/ S6Undo

SpecS6 == InitS6 /\ [][NextS6]_vars

-----------------------------------------------------------------------------
(* The specifications of replay in two steps: undo() and redo() up to the  *)
(* end of the try block, then the finally clause.  In SpecRaise a handler   *)
(* may raise; in SpecReentrant the entries are also called in between,      *)
(* while undoing or redoing is set.                                         *)

\* How the handler of the call in progress ended.
Outcome(raises) == IF raises THEN <<"raised">> ELSE <<"returned">>

UndoEnter ==
    /\ groups = 0
    /\ ~Replaying
    /\ \E raises \in BOOLEAN :
           /\ undoEnter(raises)
           /\ pc' = IF undoing' THEN Outcome(raises) ELSE <<>>
    /\ saved' = <<Snapshot>>
    /\ Replay
    /\ UNCHANGED groups

UndoFinally ==
    /\ undoFinally
    /\ pc' = Append(pc, "ended")
    /\ UNCHANGED <<groups, steps, saved>>

RedoEnter ==
    /\ groups = 0
    /\ ~Replaying
    /\ \E raises \in BOOLEAN :
           /\ redoEnter(raises)
           /\ pc' = IF redoing' THEN Outcome(raises) ELSE <<>>
    /\ saved' = <<Snapshot>>
    /\ Replay
    /\ UNCHANGED groups

RedoFinally ==
    /\ redoFinally
    /\ pc' = Append(pc, "ended")
    /\ UNCHANGED <<groups, steps, saved>>

ClearRecentFiles ==
    /\ afterClearRecentFiles("x")
    /\ Counted
    /\ saved' = <<>>
    /\ UNCHANGED groups

\* A command, called between two replays.
Command ==
    \/ MayRecord /\ ChangeNode
    \/ ChangedNode
    \/ MayRecord /\ OpenGroup
    \/ CloseGroup
    \/ MayRecord /\ SortBegin
    \/ SortEnd
    \/ MayRecord /\ Promote
    \/ MayRecord /\ Demote
    \/ MayRecord /\ Typing
    \/ MayRecord /\ ClearRecentFiles

NextRaise ==
    \/ ~Replaying /\ Command /\ UNCHANGED pc
    \/ MayReplay /\ UndoEnter
    \/ UndoFinally
    \/ MayReplay /\ RedoEnter
    \/ RedoFinally

SpecRaise == Init /\ [][NextRaise]_vars

NextReentrant ==
    \/ Command /\ UNCHANGED pc
    \/ MayReplay /\ UndoEnter
    \/ UndoFinally
    \/ MayReplay /\ RedoEnter
    \/ RedoFinally

SpecReentrant == Init /\ [][NextReentrant]_vars

-----------------------------------------------------------------------------
(* The specification of stale positions: node changes and moves, changes   *)
(* of the outline that no entry records, undo() and redo()                  *)

Move ==
    /\ \E v \in MoveNodes, newParent \in {Root, "x"}, n \in 0..2 :
           afterMoveNode(v, "Move", newParent, n)
    /\ Counted
    /\ saved' = <<>>
    /\ UNCHANGED groups

\* A script reorders the top-level nodes without telling the undoer.
UnrecordedChange ==
    /\ pending = NoPending
    /\ children[Root] # Reverse(children[Root])
    /\ SetDoc(DocOf(SetChildren(World(Doc, beads, NoBunch, <<0, 0>>), Root,
                                Reverse(children[Root]))))
    /\ lastOp' = Op("script", TRUE, FALSE, 0)
    /\ log' = <<>>
    /\ Counted
    /\ saved' = <<>>
    /\ UNCHANGED <<histVars, flagVars, cfgVars, pending, groups>>

NextStale ==
    \/ MayRecord /\ ChangeNode /\ UNCHANGED pc
    \/ ChangedNode /\ UNCHANGED pc
    \/ MayRecord /\ Move /\ UNCHANGED pc
    \/ MayRecord /\ UnrecordedChange /\ UNCHANGED pc
    \/ MayReplay /\ Undo /\ UNCHANGED pc
    \/ MayReplay /\ Redo /\ UNCHANGED pc

SpecStale == Init /\ [][NextStale]_vars

-----------------------------------------------------------------------------
(* The specification of replays after a save: commands of every kind, the  *)
(* file saved (no node dirty, the document unchanged), then undo() and     *)
(* redo(); pc tells whether the file has been saved                        *)

SavedOps == 2         \* the recording entries called before the save
SavedReplays == 2     \* the calls of undo() and redo() after it

MayCommand == pc = <<>> /\ steps.rec < SavedOps

\* The file is saved between two commands: the save the comment of
\* updateMarks speaks of clears every dirty bit and the changed flag.
Save ==
    /\ pc = <<>>
    /\ pending = NoPending
    /\ groups = 0
    /\ beads # <<>>
    /\ dirty' = [v \in AllVnodes |-> FALSE]
    /\ changed' = FALSE
    /\ pc' = <<"saved">>
    /\ UNCHANGED <<body, head, marked, children, alias, sel>>
    /\ UNCHANGED <<histVars, flagVars, cfgVars, pending, groups, steps, lastOp,
                   log, saved>>

MaySavedReplay == pc = <<"saved">> /\ steps.rep < SavedReplays

NextSaved ==
    \/ MayCommand /\ ChangeNode /\ UNCHANGED pc
    \/ ChangedNode /\ UNCHANGED pc
    \/ MayCommand /\ OpenGroup /\ UNCHANGED pc
    \/ CloseGroup /\ UNCHANGED pc
    \/ MayCommand /\ SortBegin /\ UNCHANGED pc
    \/ SortEnd /\ UNCHANGED pc
    \/ MayCommand /\ Promote /\ UNCHANGED pc
    \/ MayCommand /\ Demote /\ UNCHANGED pc
    \/ MayCommand /\ Typing /\ UNCHANGED pc
    \/ MayCommand /\ Move /\ UNCHANGED pc
    \/ Save
    \/ MaySavedReplay /\ Undo /\ UNCHANGED pc
    \/ MaySavedReplay /\ Redo /\ UNCHANGED pc

SpecSaved == Init /\ [][NextSaved]_vars

-----------------------------------------------------------------------------
(* The specification of afterChangeGroup called at any time: the commands  *)
(* of Spec, with afterChangeGroup also called when no group is open        *)

\* afterChangeGroup, whether or not a beforeChangeGroup call is unanswered.
AnyClose ==
    /\ afterChangeGroup("Group")
    /\ groups' = Max(groups - 1, 0)
    /\ saved' = <<>>
    /\ UNCHANGED steps

NextClose ==
    \/ MayRecord /\ ChangeNode /\ UNCHANGED pc
    \/ ChangedNode /\ UNCHANGED pc
    \/ MayRecord /\ OpenGroup /\ UNCHANGED pc
    \/ AnyClose /\ UNCHANGED pc
    \/ MayRecord /\ Promote /\ UNCHANGED pc
    \/ MayRecord /\ Demote /\ UNCHANGED pc
    \/ MayRecord /\ Typing /\ UNCHANGED pc
    \/ MayReplay /\ Undo /\ UNCHANGED pc
    \/ MayReplay /\ Redo /\ UNCHANGED pc
    \/ MayRecord /\ Clear /\ UNCHANGED pc

SpecClose == Init /\ [][NextClose]_vars

-----------------------------------------------------------------------------
(* The specification of a tree command: an outline with x over y and z, one *)
(* command that changes the tree of x between beforeChangeTree and          *)
(* afterChangeTree, moves of y, undo() and redo(); pc says whether the tree *)
(* command has run, saved keeps the two trees it recorded                   *)

TreeOps == 3        \* the recording entries called in one behaviour
TreeReplays == 5    \* the undo() and redo() calls in one behaviour

TreeEdits == {"reverse", "body", "mark"}

InitTree ==
    /\ body = [v \in AllVnodes |-> <<>>]
    /\ head = [v \in AllVnodes |-> "h"]
    /\ marked = [v \in AllVnodes |-> FALSE]
    /\ dirty = [v \in AllVnodes |-> FALSE]
    /\ children = [v \in AllVnodes |->
                      IF v = Root THEN <<"x">>
                      ELSE IF v = "x" THEN <<"y", "z">> ELSE <<>>]
    /\ alias = [v \in AllVnodes |-> NoAlias]
    /\ changed = FALSE
    /\ sel = EndSel(<<>>)
    /\ InitUndoer
    /\ saved = <<>>
    /\ granularity = "line"
    /\ max_undo_stack_size = 0
    /\ unitTesting = FALSE

TreeCommand ==
    /\ pc = <<>>
    /\ steps.rec < TreeOps
    /\ \E e \in TreeEdits : afterChangeTree("x", "Change Tree", e)
    /\ Counted
    /\ saved' = <<beads'[bead' + 1].oldTree, beads'[bead' + 1].newTree>>
    /\ pc' = <<"tree">>
    /\ UNCHANGED groups

TreeMove ==
    /\ steps.rec < TreeOps
    /\ \E newParent \in {Root, "x"}, n \in 0..1 :
           afterMoveNode("y", "Move", newParent, n)
    /\ Counted
    /\ UNCHANGED <<groups, pc, saved>>

TreeUndo ==
    /\ steps.rep < TreeReplays
    /\ undo
    /\ Replay
    /\ UNCHANGED <<groups, pc, saved>>

TreeRedo ==
    /\ steps.rep < TreeReplays
    /\ redo
    /\ Replay
    /\ UNCHANGED <<groups, pc, saved>>

NextTree ==
    \/ TreeCommand
    \/ TreeMove
    \/ TreeUndo
    \/ TreeRedo

SpecTree == InitTree /\ [][NextTree]_vars

-----------------------------------------------------------------------------
(* The specification of replays with or without a current position: the    *)
(* commands of SpecClose, with undo() and redo() called when the outline    *)
(* has a current position and when it has none; pc says which               *)

FrameUndo ==
    /\ groups = 0
    /\ \E current \in BOOLEAN :
           /\ undoAt(current)
           /\ pc' = <<IF current THEN "position" ELSE "no position">>
    /\ saved' = <<>>
    /\ Replay
    /\ UNCHANGED groups

FrameRedo ==
    /\ groups = 0
    /\ \E current \in BOOLEAN :
           /\ redoAt(current)
           /\ pc' = <<IF current THEN "position" ELSE "no position">>
    /\ saved' = <<>>
    /\ Replay
    /\ UNCHANGED groups

NextFrame ==
    \/ MayRecord /\ ChangeNode /\ UNCHANGED pc
    \/ ChangedNode /\ UNCHANGED pc
    \/ MayRecord /\ OpenGroup /\ UNCHANGED pc
    \/ AnyClose /\ UNCHANGED pc
    \/ MayRecord /\ Promote /\ UNCHANGED pc
    \/ MayRecord /\ Demote /\ UNCHANGED pc
    \/ MayRecord /\ Typing /\ UNCHANGED pc
    \/ MayReplay /\ FrameUndo
    \/ MayReplay /\ FrameRedo

SpecFrame == Init /\ [][NextFrame]_vars

-----------------------------------------------------------------------------
(* The specification of repeated replays: the commands of Spec, then, from  *)
(* any state, undo() called again and again while canUndo(), or redo()      *)
(* while canRedo(), with nothing recorded in between; pc says which, saved  *)
(* keeps len(beads) at the first call and counts the calls                  *)

Recording == pc = <<>>

Drained(dir) ==
    /\ pc' = <<dir>>
    /\ saved' = IF pc = <<>> THEN <<[n |-> Len(beads), calls |-> 1]>>
                ELSE <<[saved[1] EXCEPT !.calls = @ + 1]>>

\* One more call may be made: the count stops one past len(beads).
MayDrain(dir) ==
    /\ pending = NoPending
    /\ pc \in {<<>>, <<dir>>}
    /\ pc = <<dir>> => saved[1].calls <= saved[1].n

DrainUndo ==
    /\ MayDrain("undo")
    /\ canUndo
    /\ undo
    /\ Drained("undo")
    /\ UNCHANGED <<groups, steps>>

DrainRedo ==
    /\ MayDrain("redo")
    /\ canRedo
    /\ redo
    /\ Drained("redo")
    /\ UNCHANGED <<groups, steps>>

NextDrain ==
    \/ Recording /\ MayRecord /\ ChangeNode /\ UNCHANGED pc
    \/ Recording /\ ChangedNode /\ UNCHANGED pc
    \/ Recording /\ MayRecord /\ OpenGroup /\ UNCHANGED pc
    \/ Recording /\ CloseGroup /\ UNCHANGED pc
    \/ Recording /\ MayRecord /\ Demote /\ UNCHANGED pc
    \/ Recording /\ MayRecord /\ Typing /\ UNCHANGED pc
    \/ Recording /\ MayReplay /\ Undo /\ UNCHANGED pc
    \/ Recording /\ MayReplay /\ Redo /\ UNCHANGED pc
    \/ DrainUndo
    \/ DrainRedo

SpecDrain == Init /\ [][NextDrain]_vars

-----------------------------------------------------------------------------
(* The specification of the typing entry's special undo types: the commands *)
(* of Spec, and setUndoTypingParams called with undo_type "Can't Undo" and  *)
(* with undo_type None, for texts that change the body and texts that do    *)
(* not; pc says which call ran last, saved keeps the state it found         *)

SpecialCall(undo_type) ==
    /\ \E v \in TypingNodes, t \in Bodies :
           setUndoTypingParams(v, undo_type, t, EndSel(body[v]), EndSel(t))
    /\ pc' = <<undo_type>>
    /\ saved' = <<Snapshot>>
    /\ Counted
    /\ UNCHANGED groups

CantUndoCall == SpecialCall("Can't Undo")

NoneCall == SpecialCall(None)

NextSpecial ==
    \/ MayRecord /\ ChangeNode /\ pc' = <<>>
    \/ ChangedNode /\ pc' = <<>>
    \/ MayRecord /\ OpenGroup /\ pc' = <<>>
    \/ CloseGroup /\ pc' = <<>>
    \/ MayRecord /\ Typing /\ pc' = <<>>
    \/ MayReplay /\ Undo /\ pc' = <<>>
    \/ MayReplay /\ Redo /\ pc' = <<>>
    \/ MayRecord /\ CantUndoCall
    \/ MayRecord /\ NoneCall

SpecSpecial == Init /\ [][NextSpecial]_vars

-----------------------------------------------------------------------------
(* Properties of Spec *)

\* The entries that complete a command, and the kind of bunch each
\* recording entry makes.
AfterEntries ==
    {"afterChangeNodeContents", "afterSort", "afterPromote", "afterDemote",
     "afterChangeGroup"}

KindOf(op) ==
    CASE op = "afterChangeNodeContents" -> "node"
      [] op = "beforeChangeGroup" -> "beforeGroup"
      [] op = "beforeSort" -> "sort"
      [] op = "afterPromote" -> "promote"
      [] op = "afterDemote" -> "demote"
      [] op = "setUndoTypingParams" -> "typing"
      [] OTHER -> None

\* C2: undo() immediately followed by redo() leaves the bodies, headlines,
\* child lists, marked bits, the bead sequence, the cursor and the
\* enablement of undo and redo as they were before the undo(), for every
\* kind of bead, a closed group at any index of the stack included.
UndoRedoRoundTrip ==
    (lastOp.op = "redo" /\ saved # <<>>) => Snapshot = saved[1]

\* C3: in every state reachable by the entries, undo and redo the cursor
\* satisfies -1 <= bead <= len(beads) - 1.
CursorInRange == -1 <= bead /\ bead <= Len(beads) - 1

\* undo() has moved the cursor in front of the first bead of a stack that
\* cutStack has cut to its limit.
CursorAtFrontOfCutStack ==
    /\ lastOp.op = "undo" /\ lastOp.ran
    /\ bead = -1
    /\ max_undo_stack_size > 0 /\ Len(beads) = max_undo_stack_size

\* C4: between the engine's operations canUndo() is false exactly when
\* bead = -1, and canRedo() is false exactly when bead = len(beads) - 1.
LabelsFollowCursor ==
    /\ ~canUndo <=> bead = -1
    /\ ~canRedo <=> bead = Len(beads) - 1

\* C5: right after any afterX entry has run (not while replaying) canUndo()
\* is true and canRedo() is false, also while a group is open and also
\* after an undo().
AfterXEnablesUndoOnly ==
    (lastOp.op \in AfterEntries /\ lastOp.ran) => (canUndo /\ ~canRedo)

\* A step that pushes a new bunch while the bead at the cursor is not an
\* open group.
PushedOnStack == lastOp'.pushed /\ ~OpenGroupAtCursor(beads, bead)

\* C6 as the specification states it: a push outside an open group leaves
\* exactly the old beads[0..bead] followed by the new bead, the cursor on
\* the new bead, and no bead that was after the cursor.
PushKeepsAllEarlierBeads ==
    [][PushedOnStack =>
          /\ Len(beads') = bead + 2
          /\ SubSeq(beads', 1, bead + 1) = SubSeq(beads, 1, bead + 1)
          /\ beads'[bead + 2].kind = KindOf(lastOp'.op)
          /\ bead' = bead + 1]_vars

\* C6: a push outside an open group leaves the old beads[0..bead] followed
\* by the new bead, cut to its last max_undo_stack_size beads if it is cut
\* at all (never when that limit is 0); the cursor is on the new bead, the
\* last of the stack, and no bead that was after the cursor remains.
PushTruncatesForwardHistory ==
    [][PushedOnStack =>
          LET new == beads'[Len(beads')]
              full == Append(SubSeq(beads, 1, bead + 1), new)
          IN  /\ Len(beads') >= 1
              /\ new.kind = KindOf(lastOp'.op)
              /\ Len(beads') <= Len(full)
              /\ beads' = LastN(full, Len(beads'))
              /\ Len(beads') < Len(full) =>
                     max_undo_stack_size > 0 /\ Len(beads') = max_undo_stack_size
              /\ bead' = Len(beads') - 1]_vars

\* A push after which cutStack has removed beads from the front.
PushedAndCut == lastOp.pushed /\ lastOp.shift > 0

\* A text change recorded by setUndoTypingParams right after an undo().
TypingAfterUndo ==
    /\ lastOp.op = "undo" /\ lastOp.ran
    /\ lastOp'.op = "setUndoTypingParams" /\ lastOp'.ran
    /\ body' # body

\* C7: after undo(), a setUndoTypingParams call that records a text change
\* leaves no bead after the cursor and canRedo() false, whether it opens a
\* new bead or extends the bead at the cursor.
TypingDropsForwardHistory ==
    [][TypingAfterUndo => (bead' = Len(beads') - 1 /\ ~canRedo')]_vars

\* C8: undoing a closed group runs the undo handler of every item once, in
\* the reverse of the recording order; redoing it runs the redo handler of
\* every item once, in recording order, wherever the group is in the stack.
GroupReplaysEveryItemInOrder ==
    ( /\ lastOp.op \in {"undo", "redo"} /\ lastOp.ran
      /\ log # <<>>
      /\ log[1].bunch.kind = "afterGroup" /\ HasItems(log[1].bunch) ) =>
        LET items == log[1].bunch.items
            n == Len(items)
        IN  IF lastOp.op = "undo"
            THEN Tail(log) = [i \in 1..n |->
                                 [helper |-> items[n + 1 - i].undoHelper,
                                  bunch |-> items[n + 1 - i]]]
            ELSE Tail(log) = [i \in 1..n |->
                                 [helper |-> items[i].redoHelper,
                                  bunch |-> items[i]]]

\* A step that records a new bunch while the bead at the cursor is an open
\* group.
RecordedInOpenGroup == OpenGroupAtCursor(beads, bead) /\ lastOp'.pushed

\* C10: while the bead at the cursor is an open group, every entry that
\* records a bead appends it to the group's items and leaves len(beads)
\* and the cursor unchanged.
OpenGroupCollectsEveryBead ==
    [][RecordedInOpenGroup =>
          /\ Len(beads') = Len(beads)
          /\ bead' = bead
          /\ Len(beads'[bead + 1].items) = Len(beads[bead + 1].items) + 1
          /\ SubSeq(beads'[bead + 1].items, 1, Len(beads[bead + 1].items))
                 = beads[bead + 1].items
          /\ beads'[bead + 1].items[Len(beads'[bead + 1].items)].kind
                 = KindOf(lastOp'.op)]_vars

\* A bead of kind beforeGroup is on the stack bs.
OpenGroupOn(bs) == \E i \in 1..Len(bs) : bs[i].kind = "beforeGroup"

\* C11: cutStack removes no bead while a bead of kind beforeGroup is on the
\* stack: a call that has cut the stack leaves no such bead and has removed
\* none, the bead at the cursor that afterChangeGroup has just closed apart.
NoCutWhileGroupOpen ==
    [][lastOp'.shift > 0 =>
          /\ ~OpenGroupOn(beads')
          /\ \A i \in 1..Min(lastOp'.shift, Len(beads)) :
                 beads[i].kind = "beforeGroup" =>
                     (lastOp'.op = "afterChangeGroup" /\ i = CursorBead(beads, bead))]_vars

\* A push has left the stack longer than a positive limit allows, with the
\* cursor at or past the limit, while a bead of kind beforeGroup is on it.
OverLimitWithOpenGroup ==
    /\ lastOp.ran /\ lastOp.op \in {"afterPromote", "afterDemote"}
    /\ OpenGroupOn(beads)
    /\ max_undo_stack_size > 0
    /\ bead >= max_undo_stack_size
    /\ Len(beads) > max_undo_stack_size

\* C12: with a limit N > 0 and no group open, len(beads) <= N when any call
\* that has pushed a bead onto the stack returns, beforeSort included.
PushKeepsStackWithinLimit ==
    ( /\ max_undo_stack_size > 0 /\ ~unitTesting
      /\ lastOp.pushed
      /\ groups = 0 /\ ~OpenGroupOn(beads) ) =>
        Len(beads) <= max_undo_stack_size

\* A setUndoTypingParams call whose new text is the text the node has.
TypingWithoutChange ==
    /\ lastOp'.op = "setUndoTypingParams"
    /\ body' = body

-----------------------------------------------------------------------------
\* C24: clearUndoState() leaves beads empty, the cursor at -1 and the two
\* labels "Can't Undo" and "Can't Redo", so that canUndo() and canRedo()
\* are false and a call of undo() or redo() that follows does nothing.
ClearLeavesNothingToReplay ==
    /\ [](lastOp.op = "clearUndoState" =>
             /\ beads = <<>> /\ bead = -1
             /\ undoMenuLabel = "Can't Undo" /\ redoMenuLabel = "Can't Redo"
             /\ ~canUndo /\ ~canRedo)
    /\ [][(lastOp.op = "clearUndoState" /\ lastOp'.op \in {"undo", "redo"}) =>
             (~lastOp'.ran /\ UNCHANGED <<docVars, histVars, flagVars>>)]_vars

\* clearUndoState() has been called on a history that a promote or demote
\* command had left a bead in.
ClearedAfterCommand ==
    /\ lastOp.op = "clearUndoState"
    /\ steps.rec = 2
    /\ children # [v \in AllVnodes |-> IF v = Root THEN <<"x", "y", "z">> ELSE <<>>]

\* An entry named op has just run.
Ran(op) == lastOp.op = op /\ lastOp.ran

\* The bunch whose handler the last undo() or redo() ran, as it was before.
ReplayedBunch == log[1].bunch

\* undo() or redo() has just run the handler of a bead of the given kind.
Undid(kind) == Ran("undo") /\ log # <<>> /\ ReplayedBunch.kind = kind
Redid(kind) == Ran("redo") /\ log # <<>> /\ ReplayedBunch.kind = kind

\* C31: a beforeSort/afterSort pair adds one bead: beforeSort pushes the sort
\* bead with both handlers installed, afterSort changes neither len(beads)
\* nor the cursor, undo() of the bead makes oldChildren the parent's child
\* list and redo() makes newChildren that list.
SortPairAddsOneBead ==
    /\ [][lastOp'.op = "beforeSort" =>
             /\ bead' = bead + 1
             /\ Len(beads') = bead + 2
             /\ SubSeq(beads', 1, bead + 1) = SubSeq(beads, 1, bead + 1)
             /\ beads'[bead + 2].kind = "sort"
             /\ beads'[bead + 2].undoHelper = "undoSort"
             /\ beads'[bead + 2].redoHelper = "redoSort"]_vars
    /\ [][lastOp'.op = "afterSort" =>
             (Len(beads') = Len(beads) /\ bead' = bead)]_vars
    /\ [](Undid("sort") =>
             children[ReplayedBunch.p.parent] = ReplayedBunch.oldChildren)
    /\ [](Redid("sort") =>
             children[ReplayedBunch.p.parent] = ReplayedBunch.newChildren)

\* C34: while undo() or redo() replays a group no handler of an item sets
\* the selection range, whatever the kind of the item; the group sets it,
\* once, to its oldSel on undo and to its newSel on redo.
OnlyGroupSetsSelection ==
    /\ Undid("afterGroup") =>
           (lastOp.sels = <<"undoGroup">> /\ sel = ReplayedBunch.oldSel)
    /\ Redid("afterGroup") =>
           (lastOp.sels = <<"redoGroup">> /\ sel = ReplayedBunch.newSel)

\* afterChangeGroup makes a step from a state whose cursor is on an open
\* group.
ClosesOpenGroup ==
    /\ lastOp'.op = "afterChangeGroup" /\ lastOp'.ran
    /\ OpenGroupAtCursor(beads, bead)

TypingUndoRestoresBody ==
    (lastOp.op = "undo" /\ bead = -1) => body["x"] = saved[1].body["x"]

-----------------------------------------------------------------------------
\* A step of setUndoTypingParams that records a text change of x in the
\* bead at the cursor, and one that records it in a new bead.
TypingExtends ==
    /\ lastOp'.op = "setUndoTypingParams" /\ lastOp'.ran /\ ~lastOp'.pushed
    /\ body'["x"] # body["x"]

TypingOpens ==
    /\ lastOp'.op = "setUndoTypingParams" /\ lastOp'.ran /\ lastOp'.pushed
    /\ body'["x"] # body["x"]

\* Bunch n holds the new half of the TextDiff of the step's event.
HoldsNewHalf(n) ==
    LET d == TextDiff(body["x"], body'["x"])
    IN  /\ n.leading = d.leading /\ n.trailing = d.trailing
        /\ n.newMiddleLines = d.newMiddleLines
        /\ n.newNewlines = d.newNewlines
        /\ n.newSel = EndSel(body'["x"])

\* C27: a typing event that extends the bead at the cursor leaves
\* len(beads), the cursor and every other bead unchanged; the bead keeps
\* its oldSel, oldMiddleLines and oldNewlines, which the event that opened
\* the bead gave it, and its leading, trailing, newMiddleLines, newNewlines
\* and newSel become those of the latest event.
ExtensionKeepsOldHalf ==
    /\ [][TypingExtends =>
             /\ Len(beads') = Len(beads) /\ bead' = bead
             /\ \A i \in 1..Len(beads) : i # bead + 1 => beads'[i] = beads[i]
             /\ beads'[bead + 1].oldSel = beads[bead + 1].oldSel
             /\ beads'[bead + 1].oldMiddleLines = beads[bead + 1].oldMiddleLines
             /\ beads'[bead + 1].oldNewlines = beads[bead + 1].oldNewlines
             /\ HoldsNewHalf(beads'[bead + 1])]_vars
    /\ [][TypingOpens =>
             LET d == TextDiff(body["x"], body'["x"])
                 n == beads'[bead' + 1]
             IN  /\ n.oldSel = sel
                 /\ n.oldMiddleLines = d.oldMiddleLines
                 /\ n.oldNewlines = d.oldNewlines
                 /\ HoldsNewHalf(n)]_vars

\* A bead of x has been extended twice at granularity 'line'.
BeadExtendedTwice ==
    /\ granularity = "line"
    /\ lastOp.op = "setUndoTypingParams" /\ lastOp.ran /\ ~lastOp.pushed
    /\ Len(beads) = 1 /\ steps.rec = 3 /\ steps.rep = 0

(* Properties of SpecS4 *)

\* afterChangeGroup has left one bead more than beforeChangeGroup found.
S4LengthGrowsByOne ==
    Len(pc) >= 5 => Len(saved[2].beads) = Len(saved[1].beads) + 1

\* The single undo() has restored the bodies of before the group.
S4UndoRestoresBodies ==
    Len(pc) = 6 => body = saved[1].body

\* The single redo() has brought back the bodies the group left.
S4RedoReappliesBodies ==
    Len(pc) = 7 => body = saved[2].body

\* C9: from any history state, beforeChangeGroup, three
\* beforeChangeNodeContents/afterChangeNodeContents pairs on three
\* different nodes, then afterChangeGroup make len(beads) grow by exactly 1;
\* one undo() then restores all three bodies and one redo() reapplies them.
S4GroupIsOneUndoStep ==
    /\ S4LengthGrowsByOne
    /\ S4UndoRestoresBodies
    /\ S4RedoReappliesBodies

-----------------------------------------------------------------------------
(* Properties of SpecS6 *)

\* C13: whenever cutStack truncates, the stack is cut to its last N beads,
\* in their order, and the cursor N-1 is on the last of them, a bead that
\* has not been undone; with N = S6Limit, after S6Pushes pushes outside any
\* group len(beads) = N and the cursor is N-1, exactly N calls of undo()
\* take effect, and canUndo() is false after them.
S6StackBound ==
    /\ lastOp.shift > 0 =>
           Len(beads) = S6Limit /\ bead = S6Limit - 1
    /\ (steps.rec = S6Pushes /\ lastOp.pushed /\ pc = <<>>) =>
           Len(beads) = S6Limit /\ bead = S6Limit - 1
    /\ Len(pc) \in 1..S6Limit => lastOp.ran /\ bead = S6Limit - 1 - Len(pc)
    /\ Len(pc) = S6Limit => ~canUndo
    /\ Len(pc) = S6Limit + 1 => ~lastOp.ran

-----------------------------------------------------------------------------
(* Properties of SpecReentrant *)

\* C14: while undoing or redoing is set, no beforeX entry, no afterX entry
\* (beforeChangeGroup, beforeSort, afterPromote, afterDemote and
\* afterClearRecentFiles included) and no setUndoTypingParams call changes
\* beads, the cursor or the items of any group.
EntriesReturnWhileReplaying ==
    [][(Replaying /\ Replaying') => (beads' = beads /\ bead' = bead)]_vars

-----------------------------------------------------------------------------
(* Properties of SpecRaise *)

\* The labels setUndoTypes computes for cursor b of stack bs.
LabelsFor(bs, b) == setUndoTypes(bs, b, 0, FALSE)

\* C15: when a call of undo() or redo() whose handler has raised ends, the
\* flags undoing and redoing are both False, the cursor is one less (undo)
\* or one more (redo) than the call found it, and the menu labels are those
\* of the beads at and after the new cursor.
RaisedReplayStillEnds ==
    [][(Replaying /\ pc = <<"raised">> /\ lastOp'.op \in {"undo", "redo"}) =>
          /\ ~undoing' /\ ~redoing'
          /\ bead' = saved[1].bead + (IF undoing THEN -1 ELSE 1)
          /\ undoMenuLabel' = LabelsFor(beads', bead').undoMenuLabel
          /\ redoMenuLabel' = LabelsFor(beads', bead').redoMenuLabel]_vars

\* An undo() whose handler raised has ended.
RaisedUndoEnded ==
    /\ pc = <<"raised", "ended">>
    /\ lastOp.op = "undo"
    /\ ~Replaying

-----------------------------------------------------------------------------
(* Properties of SpecStale *)

\* The place bunch says its node is at before undo() (isUndo) or redo().
StoredPosition(bunch, isUndo) ==
    IF bunch.kind = "move" /\ isUndo
    THEN [v |-> bunch.p.v, parent |-> bunch.newParent_v, n |-> bunch.newN]
    ELSE bunch.p

\* Position q is stale: q.v is not child q.n of q.parent.
Stale(q) ==
    ~(q.n < Len(children[q.parent]) /\ children[q.parent][q.n + 1] = q.v)

\* The step is an undo() or a redo() that got to a bead whose stored
\* position is stale.
ReplayOfStaleBead ==
    /\ lastOp'.ran
    /\ \/ lastOp'.op = "undo" /\ Stale(StoredPosition(beads[bead + 1], TRUE))
       \/ lastOp'.op = "redo" /\ Stale(StoredPosition(beads[bead + 2], FALSE))

\* C16: when undo() or redo() reaches a bead whose stored position is
\* stale, the cursor does not move and the document is left unchanged.
StaleBeadIsNotReplayed ==
    [][ReplayOfStaleBead =>
          /\ bead' = bead
          /\ <<body, head, marked, children>>' = <<body, head, marked, children>>]_vars

-----------------------------------------------------------------------------
(* Properties of SpecCoalesce *)

\* The step is a text-changing typing event; LastEvent is its node and label.
IsEvent == Len(pc') = Len(pc) + 1

LastEvent == pc'[Len(pc')]

\* The event has opened a new bead right after the cursor.
OpensBead ==
    /\ lastOp'.pushed
    /\ Len(beads') = bead + 2
    /\ bead' = bead + 1
    /\ SubSeq(beads', 1, bead + 1) = SubSeq(beads, 1, bead + 1)
    /\ beads'[bead + 2].kind = "typing"

\* The event has changed the bead at the cursor and added none.
ExtendsBead ==
    /\ ~lastOp'.pushed
    /\ Len(beads') = Len(beads)
    /\ bead' = bead
    /\ beads' # beads

\* C18: at granularity 'char' every text-changing typing event outside a
\* group adds exactly one bead, so that k successive events add k beads.
CharEventsAddOneBeadEach ==
    /\ [][(granularity = "char" /\ IsEvent) => OpensBead]_vars
    /\ [](granularity = "char" /\ steps.rep = 0 => Len(beads) = Len(pc))

\* Three events at granularity 'char' have left three beads.
ThreeCharEvents ==
    /\ granularity = "char"
    /\ steps.rep = 0
    /\ Len(pc) = 3 /\ Len(beads) = 3

\* The bead at the cursor is a typing bead on node v.
TypingBeadOn(v) ==
    /\ HasBead(beads, bead)
    /\ beads[bead + 1].kind = "typing"
    /\ beads[bead + 1].p.v = v

\* All events so far are on one node.
SameNode == \A i, j \in 1..Len(pc) : pc[i].v = pc[j].v

\* All events so far have the label 'Typing'.
AllTyping == \A i \in 1..Len(pc) : pc[i].undo_type = "Typing"

\* C19 as the specification states it: at granularity 'node' the events
\* leave exactly one bead if and only if they are all on one node, and an
\* event extends the bead at the cursor if and only if that bead is a
\* typing bead on the same node, whatever the labels.
NodeEventsShareWhateverLabel ==
    /\ [][(granularity = "node" /\ IsEvent) =>
             IF TypingBeadOn(LastEvent.v) THEN ExtendsBead ELSE OpensBead]_vars
    /\ []((granularity = "node" /\ steps.rep = 0 /\ pc # <<>>) =>
             (Len(beads) = 1 <=> SameNode))

\* C19: at granularity 'node' events labelled 'Typing' leave exactly one
\* bead if and only if they are all on one node, and an event extends the
\* bead at the cursor if and only if that bead is a typing bead on the same
\* node and both the bead's undoType and the event's label are 'Typing'.
NodeEventsShareTypingBead ==
    /\ [][(granularity = "node" /\ IsEvent) =>
             IF /\ TypingBeadOn(LastEvent.v)
                /\ beads[bead + 1].undoType = "Typing"
                /\ LastEvent.undo_type = "Typing"
             THEN ExtendsBead ELSE OpensBead]_vars
    /\ []((granularity = "node" /\ steps.rep = 0 /\ pc # <<>> /\ AllTyping) =>
             (Len(beads) = 1 <=> SameNode))

\* Three events labelled 'Typing' on one node have left one bead.
ThreeNodeEventsOneBead ==
    /\ granularity = "node"
    /\ steps.rep = 0
    /\ Len(pc) = 3 /\ AllTyping /\ SameNode
    /\ Len(beads) = 1

-----------------------------------------------------------------------------
(* Properties of SpecWord *)

\* The whitespace-bounded words of t.
WordCount(t) ==
    Cardinality({i \in 1..Len(t) :
                    ~isspace(t[i]) /\ (i = 1 \/ isspace(t[i - 1]))})

\* The first character of t and every whitespace typed right after a
\* character that is not whitespace.
WordEnds(t) ==
    Cardinality({i \in 1..Len(t) :
                    i = 1 \/ (isspace(t[i]) /\ ~isspace(t[i - 1]))})

\* The calls of undo() and of redo() made so far.
Undone == Len(SelectSeq(pc, LAMBDA c : c = "undo"))

Redone == Len(SelectSeq(pc, LAMBDA c : c = "redo"))

\* C20 as the specification states it: at granularity 'word' text typed one
\* character at a time leaves one bead for every whitespace-bounded word;
\* "hello " leaves one bead, one undo() restores "" and one redo() restores
\* "hello ".
OneBeadPerWord ==
    /\ pc = <<>> => Len(beads) = WordCount(body["x"])
    /\ (saved # <<>> /\ saved[1].body["x"] = Hello) =>
           /\ Len(saved[1].beads) = 1
           /\ (Undone = 1 /\ Redone = 0) => body["x"] = <<>>
           /\ (Undone = 1 /\ Redone = 1) => body["x"] = Hello

\* C20: at granularity 'word' text typed one character at a time opens a
\* bead at the first character and at every whitespace that follows a
\* character that is not whitespace; "hello " leaves two beads, "hello" and
\* " ", two calls of undo() restore "" and two calls of redo() restore
\* "hello ".
OneBeadPerWordEnd ==
    /\ pc = <<>> => Len(beads) = WordEnds(body["x"])
    /\ (saved # <<>> /\ saved[1].body["x"] = Hello) =>
           /\ Len(saved[1].beads) = 2
           /\ (Undone = 1 /\ Redone = 0) => body["x"] = TheWord
           /\ (Undone = 2 /\ Redone = 0) => body["x"] = <<>> /\ ~canUndo
           /\ (Undone = 2 /\ Redone = 2) => body["x"] = Hello /\ ~canRedo

\* "hello " has been typed, undone by two calls and redone by two calls.
HelloUndoneAndRedone ==
    /\ saved # <<>> /\ saved[1].body["x"] = Hello
    /\ Undone = 2 /\ Redone = 2

-----------------------------------------------------------------------------
(* Properties of SpecS2 *)

\* " world" has been typed after "hi", one character at a time.
WorldTyped == saved # <<>> /\ saved[1].body["x"] = HiWorld

\* C21 as the specification states it: at granularity 'word' typing
\* " world" one character at a time after body "hi" leaves two beads, one
\* for the space and one for "world", and two calls of undo() restore "hi".
SpaceAndWorldAreTwoBeads ==
    WorldTyped =>
        /\ Len(saved[1].beads) = 2
        /\ (Undone = 1 /\ Redone = 0) => body["x"] = Hi \o <<" ">>
        /\ (Undone = 2 /\ Redone = 0) => body["x"] = Hi

\* C21: at granularity 'word' typing " world" one character at a time after
\* body "hi" with an empty history leaves one bead, opened by the space and
\* extended by "world"; one call of undo() restores "hi" and leaves nothing
\* to undo, and one call of redo() restores "hi world".
SpaceAndWorldAreOneBead ==
    WorldTyped =>
        /\ Len(saved[1].beads) = 1
        /\ saved[1].bead = 0
        /\ Undone <= 1 /\ Redone <= 1
        /\ (Undone = 1 /\ Redone = 0) => body["x"] = Hi /\ ~canUndo
        /\ (Undone = 1 /\ Redone = 1) => body["x"] = HiWorld /\ ~canRedo

\* " world" has been typed after "hi", undone by one call and redone.
WorldUndoneAndRedone == WorldTyped /\ Undone = 1 /\ Redone = 1

-----------------------------------------------------------------------------
(* Properties of SpecS5 *)

\* The node that was cloned, and the outline, headlines and bodies that
\* snapshot i of SpecS5 keeps (1: before the clone, 2: before the deletion).
ClonedNode == beads[1].p.v

SameOutlineAs(i) ==
    /\ children = saved[i].children
    /\ head = saved[i].head
    /\ body = saved[i].body

\* C22 as the specification states it: after a clone of V under a new
\* parent and the deletion of V's original appearance, two calls of undo()
\* leave both appearances of V at their original places, headline and body
\* unchanged.
TwoUndosLeaveBothAppearances ==
    pc = <<"clone", "delete", "undo", "undo">> =>
        /\ Cardinality(Appearances(children, ClonedNode)) = 2
        /\ SameOutlineAs(2)

\* C22: after a clone of V under a new parent and the deletion of V's
\* original appearance, one call of undo() leaves both appearances of V at
\* their original places, and a second call removes the clone and leaves
\* the original appearance alone at its place; V's headline and body are
\* unchanged throughout.
OneUndoLeavesBothAppearances ==
    /\ pc = <<"clone", "delete", "undo">> =>
           /\ Appearances(children, ClonedNode) = {beads[1].p, beads[1].newP}
           /\ SameOutlineAs(2)
    /\ pc = <<"clone", "delete", "undo", "undo">> =>
           /\ Appearances(children, ClonedNode) = {beads[1].p}
           /\ SameOutlineAs(1)

\* The clone and the deletion have been undone by two calls of undo().
CloneAndDeletionUndone ==
    /\ pc = <<"clone", "delete", "undo", "undo">>
    /\ beads[1].p.parent # Root /\ beads[1].newP.n > 0

-----------------------------------------------------------------------------
(* Properties of SpecNull *)

\* C23: on a nullUndoer every operation of the interface, beforeSort,
\* afterSort, afterPromote and afterDemote included, completes without
\* error and without creating any history, and canUndo() and canRedo() are
\* always false.
NullUndoerDoesNothing ==
    /\ \A i \in 1..Len(pc) : ~pc[i].raises
    /\ beads = <<>> /\ bead = -1
    /\ ~nullCanUndo /\ ~nullCanRedo

-----------------------------------------------------------------------------
(* Properties of SpecDiff *)

\* The text before the event, the text after it, and the event's bead.
DiffOld == saved[1].body["x"]

DiffNew == IF Len(saved) = 2 THEN saved[2].body["x"] ELSE body["x"]

DiffBead == beads[1]

\* C25: for texts oldText # newText the bead holds the TextDiff of the two,
\* undoRedoText applied to newText with the old half gives oldText and
\* applied to oldText with the new half gives newText; so undo() restores
\* oldText and redo() newText.
TextDiffReconstructs ==
    pc # <<>> =>
        /\ LET d == TextDiff(DiffOld, DiffNew)
           IN  /\ DiffBead.leading = d.leading
               /\ DiffBead.trailing = d.trailing
               /\ DiffBead.oldMiddleLines = d.oldMiddleLines
               /\ DiffBead.newMiddleLines = d.newMiddleLines
               /\ DiffBead.oldNewlines = d.oldNewlines
               /\ DiffBead.newNewlines = d.newNewlines
        /\ undoRedoText(DiffNew, DiffBead.leading, DiffBead.trailing,
                        DiffBead.oldMiddleLines, DiffBead.oldNewlines) = DiffOld
        /\ undoRedoText(DiffOld, DiffBead.leading, DiffBead.trailing,
                        DiffBead.newMiddleLines, DiffBead.newNewlines) = DiffNew
        /\ pc[Len(pc)] = "undo" => body["x"] = DiffOld
        /\ pc[Len(pc)] = "redo" => body["x"] = DiffNew

\* The lines between matching first and last lines have been replaced,
\* undone and redone.
MiddleLinesUndoneAndRedone ==
    /\ pc = <<"typed", "undo", "redo">>
    /\ DiffBead.leading > 0 /\ DiffBead.trailing > 0
    /\ DiffBead.oldMiddleLines # DiffBead.newMiddleLines

-----------------------------------------------------------------------------
(* Properties of SpecLine *)

\* The TextDiff of the event of the step.
EventDiff == TextDiff(body[LastEvent.v], body'[LastEvent.v])

\* The bead at the cursor is a typing bead on the event's node whose stored
\* leading and trailing counts are the event's.
SameLinesAsBead ==
    /\ TypingBeadOn(LastEvent.v)
    /\ beads[bead + 1].leading = EventDiff.leading
    /\ beads[bead + 1].trailing = EventDiff.trailing

\* C26 as the specification states it: at granularity 'line' a
\* text-changing typing event extends the bead at the cursor if and only if
\* that bead is a typing bead on the same node with the event's leading and
\* trailing counts, whatever the labels; otherwise it pushes a new bead.
LineEventsShareWhateverLabel ==
    [][(granularity = "line" /\ IsEvent) =>
          IF SameLinesAsBead THEN ExtendsBead ELSE OpensBead]_vars

\* C26: at granularity 'line' a text-changing typing event extends the bead
\* at the cursor if and only if that bead is a typing bead on the same
\* node, the bead's undoType and the event's label are both 'Typing', and
\* the bead's leading and trailing counts equal the event's; otherwise it
\* pushes a new bead.
LineEventsShareTypingBead ==
    [][(granularity = "line" /\ IsEvent) =>
          IF /\ SameLinesAsBead
             /\ beads[bead + 1].undoType = "Typing"
             /\ LastEvent.undo_type = "Typing"
          THEN ExtendsBead ELSE OpensBead]_vars

\* Two events labelled 'Typing' on one node, with the same counts of
\* matching lines, of which one is not zero, have left one bead.
LineBeadExtendedThenLeft ==
    /\ granularity = "line"
    /\ Len(pc) = 2 /\ SameNode /\ AllTyping
    /\ Len(beads) = 1
    /\ beads[1].leading + beads[1].trailing > 0

-----------------------------------------------------------------------------
(* Properties of SpecOutline *)

\* The command's bead, and the last step.
CommandBead == beads[1]

LastStep == pc[Len(pc)]

\* The child lists before the command and after it.
ListsBefore == saved[1].children

ListsAfter == saved[2].children

\* C28: for every move of a node from (oldParent, oldN) to (newParent,
\* newN), moves within one parent included, undo() of the move bead
\* restores the child lists as they were before the move, in contents and
\* order, and redo() restores them as they were after it.
MoveRoundTrip ==
    (pc # <<>> /\ pc[1] = "move") =>
        /\ LastStep = "undo" => children = ListsBefore
        /\ LastStep = "redo" => children = ListsAfter

\* A move within one parent has been undone, redone and undone.
MoveWithinParentReplayed ==
    /\ pc = <<"move", "undo", "redo", "undo">>
    /\ CommandBead.oldParent_v = CommandBead.newParent_v


\* C29: for every demote recorded by afterDemote(p, followingSibs), with
\* followingSibs of any length, zero included, undo() restores p's child
\* list and the parent's child list as they were before the demote, and
\* redo() restores them as they were after it.
DemoteRoundTrip ==
    (pc # <<>> /\ pc[1] = "demote") =>
        /\ LastStep = "undo" => children = ListsBefore
        /\ LastStep = "redo" => children = ListsAfter

\* The promoted node's parent, its index there (from 0) and the number of
\* promoted children, as the bead of the command holds them.
PromoteParent == CommandBead.p.parent
PromoteN == CommandBead.p.n
PromoteK == Len(CommandBead.children)

\* C30: after a promote of k children of p, p being child n of its parent,
\* undo() takes exactly the k nodes at places n+1..n+k out of the parent's
\* list and makes them p's children in their original order; redo() puts
\* them back at n+1..n+k and empties p's list; the other siblings keep
\* their order, and no other list changes.
PromoteRoundTrip ==
    (pc # <<>> /\ pc[1] = "promote") =>
        /\ LastStep = "undo" =>
               /\ SubSeq(ListsAfter[PromoteParent], PromoteN + 2,
                         PromoteN + 1 + PromoteK) = CommandBead.children
               /\ children[PromoteParent] =
                      Take(ListsAfter[PromoteParent], PromoteN + 1)
                          \o Drop(ListsAfter[PromoteParent],
                                  PromoteN + 1 + PromoteK)
               /\ children[CommandBead.p.v] = CommandBead.children
               /\ children = ListsBefore
        /\ LastStep = "redo" =>
               /\ children[PromoteParent] =
                      Take(ListsBefore[PromoteParent], PromoteN + 1)
                          \o CommandBead.children
                          \o Drop(ListsBefore[PromoteParent], PromoteN + 1)
               /\ children[CommandBead.p.v] = <<>>
               /\ children = ListsAfter

\* A promote whose node has a sibling after it has been undone and redone.
PromoteBeforeSiblingReplayed ==
    /\ pc = <<"promote", "undo", "redo">>
    /\ PromoteK > 0
    /\ Len(ListsBefore[PromoteParent]) > PromoteN + 1

-----------------------------------------------------------------------------
(* Properties of SpecNode *)

\* What the command found in the node and what afterChangeNodeContents saw.
NodeFound == saved[1]
NodeLeft == saved[2]

\* C32: undo() of a node bead gives the node the body and headline it had
\* before the change, as beforeChangeNodeContents recorded them (the
\* arguments oldBody and oldHead when the caller gives them, the empty
\* string included, else the node's values at the call), and the marked
\* bit oldMarked; redo() gives it the body, headline and marked bit that
\* afterChangeNodeContents saw.
NodeContentsReplayed ==
    /\ Undid("node") =>
           /\ body["x"] = NodeFound.body["x"]
           /\ head["x"] = NodeFound.head["x"]
           /\ marked["x"] = NodeFound.marked["x"]
    /\ Redid("node") =>
           /\ body["x"] = NodeLeft.body["x"]
           /\ head["x"] = NodeLeft.head["x"]
           /\ marked["x"] = NodeLeft.marked["x"]


-----------------------------------------------------------------------------
(* Properties of SpecSaved *)

\* undo() or redo() has just run the handler of a bead.
ReplayedABead == (Ran("undo") \/ Ran("redo")) /\ log # <<>>

\* C33: after every undo() or redo() that has run a bead's handler, whatever
\* the kind of the bead and whatever oldChanged, newChanged, oldDirty and
\* newDirty it holds, the bead's node is dirty and the document is changed.
ReplayLeavesNodeDirty ==
    ReplayedABead => (dirty[ReplayedBunch.p.v] /\ changed)


-----------------------------------------------------------------------------
(* Properties of SpecClose *)

\* afterChangeGroup makes a step from a state whose cursor is not on an
\* open group.
ClosesNoOpenGroup ==
    /\ lastOp'.op = "afterChangeGroup"
    /\ ~OpenGroupAtCursor(beads, bead)

\* C36: afterChangeGroup called when the bead at the cursor is not an open
\* group (a bead of another kind, the cursor at -1 after every bead was
\* undone, or no bead at all) raises no exception and changes neither
\* len(beads) nor the cursor.
UnmatchedCloseIsHarmless ==
    [][ClosesNoOpenGroup =>
          /\ ~lastOp'.raised
          /\ Len(beads') = Len(beads)
          /\ bead' = bead]_vars

-----------------------------------------------------------------------------
(* Properties of SpecTree *)

\* The nodes that tree t records have the values it records.
TreeIs(t) ==
    \A k \in 1..Len(t) :
        /\ children[t[k].v] = t[k].children
        /\ head[t[k].v] = t[k].headString
        /\ body[t[k].v] = t[k].bodyString
        /\ marked[t[k].v] = t[k].marked
        /\ dirty[t[k].v] = t[k].dirty

\* The tree beads of the history.
TreeBeads == {i \in 1..Len(beads) : beads[i].kind = "tree"}

\* C37: after undo() of a tree bead every node recorded in oldTree has the
\* recorded child list, headline, body and status bits, after redo() every
\* node recorded in newTree has; no later edit changes the two trees the
\* bead holds, so that every undo() gives the tree the command found and
\* every redo() the tree it left.
TreeReplaysGiveTheTwoTrees ==
    /\ Undid("tree") => TreeIs(ReplayedBunch.oldTree) /\ TreeIs(saved[1])
    /\ Redid("tree") => TreeIs(ReplayedBunch.newTree) /\ TreeIs(saved[2])
    /\ \A i \in TreeBeads :
           beads[i].oldTree = saved[1] /\ beads[i].newTree = saved[2]

-----------------------------------------------------------------------------
(* Properties of SpecFrame *)

\* The kind and the label of every bead, in order.
Tags(bs) == [i \in 1..Len(bs) |-> <<bs[i].kind, bs[i].undoType>>]

\* C38: undo() and redo() leave the beads of the stack, their order, kinds
\* and labels as they are; a call that takes effect moves the cursor by -1
\* (undo) or +1 (redo), and a call in a disabled direction or without a
\* current position leaves the beads and the cursor unchanged.
ReplayMovesOnlyTheCursor ==
    [][lastOp'.op \in {"undo", "redo"} =>
           IF lastOp'.ran
           THEN /\ Tags(beads') = Tags(beads)
                /\ bead' = IF lastOp'.op = "undo" THEN bead - 1 ELSE bead + 1
           ELSE beads' = beads /\ bead' = bead]_vars

-----------------------------------------------------------------------------
(* Properties of SpecDrain *)

\* The calls of the repeated undo() or redo(), and len(beads) at the first.
DrainCalls == saved[1].calls
DrainLen == saved[1].n

\* C39: with nothing recorded in between and a current position, undo()
\* called repeatedly leaves canUndo() false after at most len(beads) calls
\* and redo() called repeatedly leaves canRedo() false after at most
\* len(beads) calls; every call made while its direction is enabled moves
\* the cursor.
RepeatedReplaysRunOut ==
    /\ [](pc = <<"undo">> /\ DrainCalls >= DrainLen => ~canUndo)
    /\ [](pc = <<"redo">> /\ DrainCalls >= DrainLen => ~canRedo)
    /\ [][pc' = <<"undo">> => bead' < bead]_vars
    /\ [][pc' = <<"redo">> => bead' > bead]_vars

-----------------------------------------------------------------------------
(* Properties of SpecSpecial *)

\* C40: setUndoTypingParams with undo_type "Can't Undo" leaves no bead, the
\* cursor at -1 and neither undo nor redo enabled, whatever the texts are;
\* with undo_type None it leaves the beads, the cursor, the labels and the
\* flags as they were.
SpecialUndoTypes ==
    /\ [](pc = <<"Can't Undo">> =>
              beads = <<>> /\ bead = -1 /\ ~canUndo /\ ~canRedo)
    /\ [][pc' = <<None>> => UNCHANGED <<histVars, flagVars>>]_vars

\* "Can't Undo" has discarded a history in which undo and redo were enabled.
HistoryDiscarded ==
    /\ pc = <<"Can't Undo">>
    /\ Len(saved[1].beads) >= 2
    /\ saved[1].canUndo
    /\ saved[1].canRedo

====
